---- MODULE Spec2Model ----
(***************************************************************************)
(* FX simulator: the time-stepped simulation engine.                       *)
(*                                                                         *)
(*   backend/src/services/market_data_service.py   candle queries          *)
(*   backend/src/services/simulation_service.py    simulation clock        *)
(*   backend/src/services/trading_service.py       ledger and triggers     *)
(*                                                                         *)
(* Units.  Time is counted in minutes from Monday 00:00 of week 0 (1440 a  *)
(* day, 10080 a week).  Prices are integers in pips (0.01 yen,             *)
(* PIPS_UNIT), lot sizes in hundredths of a lot (DECIMAL(10,2)), money in  *)
(* hundredths of a yen (DECIMAL(15,2)).  In these units every product and  *)
(* quotient of the ledger is an exact integer, so round(x, 2) is the       *)
(* identity on the values the model computes.                              *)
(*                                                                         *)
(* An optional value (None / a number) is the empty or the one-element     *)
(* sequence.                                                               *)
(***************************************************************************)
EXTENDS Integers, Sequences, FiniteSets, TLC

VARIABLES
    candles,      \* the candles table: rows of every timeframe
    sims,         \* the simulations table, in created_at order (id = index)
    accounts,     \* the accounts table, one row per simulation (same index)
    orders,       \* the orders table (id = index)
    positions,    \* the positions table (id = index)
    trades,       \* the trades table (id = index)
    pendings,     \* the pending_orders table (id = index)
    query,        \* the last candle query and the series it returned
    advance       \* the advance_time call in flight: its position, its
                  \* database session, and what it returned

vars == <<candles, sims, accounts, orders, positions, trades, pendings, query, advance>>

-----------------------------------------------------------------------------
(* Bounds of the model *)

MaxSims == 3      \* simulations started in a lifecycle run
MaxOrders == 1    \* market orders and pending orders placed
MaxLimit == 2     \* limit argument of a candle query

-----------------------------------------------------------------------------
(* Optional values *)

None == <<>>
Some(v) == <<v>>
IsSome(x) == x # <<>>
Val(x) == x[1]

-----------------------------------------------------------------------------
(* Calendar *)

MinutesPerHour == 60
MinutesPerDay == 1440
MinutesPerWeek == 10080
OpenHour == 7

\* datetime.weekday(): Monday = 0 .. Sunday = 6
weekday(t) == (t % MinutesPerWeek) \div MinutesPerDay
hour(t) == (t % MinutesPerDay) \div MinutesPerHour
minute(t) == t % MinutesPerHour
At(week, day, hh, mm) == week * MinutesPerWeek + day * MinutesPerDay + hh * MinutesPerHour + mm

SetMin(S) == CHOOSE x \in S : \A y \in S : x <= y
SetMax(S) == CHOOSE x \in S : \A y \in S : x >= y
LargestN(S, n) == {x \in S : Cardinality({y \in S : y > x}) < n}
SmallestN(S, n) == {x \in S : Cardinality({y \in S : y < x}) < n}

RECURSIVE SortAsc(_)
SortAsc(S) == IF S = {} THEN <<>> ELSE <<SetMin(S)>> \o SortAsc(S \ {SetMin(S)})

Range(s) == {s[i] : i \in DOMAIN s}

\* the market is closed all Saturday
is_market_open_saturday_closed(t) ==
    IF weekday(t) = 6 THEN FALSE
    ELSE IF weekday(t) = 5 THEN FALSE
    ELSE IF weekday(t) = 0 /\ hour(t) < OpenHour THEN FALSE
    ELSE TRUE

is_market_open(t) ==
    IF weekday(t) = 6 THEN FALSE
    ELSE IF weekday(t) = 5 /\ hour(t) >= OpenHour THEN FALSE
    ELSE IF weekday(t) = 0 /\ hour(t) < OpenHour THEN FALSE
    ELSE TRUE

\* no row is dropped
filter_market_hours_none(T, timeframe) == T

\* filter_market_hours on a set of timestamps of one timeframe
filter_market_hours(T, timeframe) ==
    IF timeframe \in {"W1", "D1"} THEN T ELSE {t \in T : is_market_open(t)}

-----------------------------------------------------------------------------
(* The candles table *)

Timeframes == {"M10", "H1", "D1", "W1"}

Bar(tf, ts, o, h, l, c, v) ==
    [timeframe |-> tf, timestamp |-> ts, open |-> o, high |-> h, low |-> l, close |-> c, volume |-> v]

\* minutes a stored bar of the timeframe spans
PeriodMinutes(tf) ==
    CASE tf = "M10" -> 10
      [] tf = "H1" -> MinutesPerHour
      [] tf = "D1" -> MinutesPerDay
      [] tf = "W1" -> MinutesPerWeek

Fri2330 == At(0, 4, 23, 30)
Mon0700 == At(1, 0, 7, 0)

\* Historical data over one weekend: Friday evening of week 0, a stray Sunday
\* bar, Monday morning of week 1 with a one-bar gap at 07:20.
M10Rows ==
    { Bar("M10", Fri2330,     15000, 15010, 14990, 15000, 10),
      Bar("M10", Fri2330 + 10, 15000, 15040, 15000, 15040, 20),
      Bar("M10", Fri2330 + 20, 15040, 15050, 14960, 14970, 30),
      Bar("M10", At(0, 6, 12, 0), 14970, 14980, 14960, 14970, 5),
      Bar("M10", Mon0700,     14970, 15000, 14950, 14960, 10),
      Bar("M10", Mon0700 + 10, 14960, 15000, 14960, 15000, 20),
      Bar("M10", Mon0700 + 30, 15000, 15030, 14990, 15020, 30) }

\* Stored coarser bars are the full-period bars of the data provider.
H1Rows ==
    { Bar("H1", At(0, 4, 22, 0), 14980, 15020, 14970, 15000, 300),
      Bar("H1", At(0, 4, 23, 0), 15000, 15050, 14960, 14970, 330),
      Bar("H1", At(1, 0, 7, 0),  14970, 15060, 14950, 15050, 360) }

D1Rows ==
    { Bar("D1", At(0, 3, 7, 0), 14900, 15000, 14880, 14980, 5000),
      Bar("D1", At(0, 4, 7, 0), 14980, 15080, 14940, 14975, 6000),
      Bar("D1", At(1, 0, 0, 0), 14970, 15100, 14930, 15090, 7000) }

W1Rows ==
    { Bar("W1", At(0, 0, 7, 0), 14800, 15080, 14790, 14975, 30000),
      Bar("W1", At(1, 0, 7, 0), 14970, 15200, 14900, 15150, 40000) }

\* the table the candle queries are checked on
CandleStore == M10Rows \cup H1Rows \cup D1Rows \cup W1Rows

\* the table the ledger is checked on: the last two 10-minute bars of a Friday
LedgerStore ==
    { Bar("M10", Fri2330,      15030, 15040, 15020, 15030, 10),
      Bar("M10", Fri2330 + 10, 15030, 15070, 14960, 15000, 30) }

\* the table the lifecycle is checked on: the same Friday and the Monday open
WeekendStore ==
    LedgerStore \cup { Bar("M10", Mon0700, 15000, 15005, 14960, 14980, 10) }

TimesOf(tf) == {c.timestamp : c \in {r \in candles : r.timeframe = tf}}
Row(tf, ts) == CHOOSE c \in candles : c.timeframe = tf /\ c.timestamp = ts

\* A returned bar (the dict of the service).  src is a ghost field: the stored
\* rows whose OHLCV went into the bar.
Dict(ts, o, h, l, c, v, src) ==
    [timestamp |-> ts, open |-> o, high |-> h, low |-> l, close |-> c, volume |-> v, src |-> src]
RowDict(r) == Dict(r.timestamp, r.open, r.high, r.low, r.close, r.volume, {<<r.timeframe, r.timestamp>>})

\* get_candles: the first rows from start_time to end_time, either of them
\* optional, ascending
get_candles(timeframe, start_time, end_time, limit) ==
    LET fetched == SmallestN({t \in TimesOf(timeframe) :
                                 /\ (IsSome(start_time) => t >= Val(start_time))
                                 /\ (IsSome(end_time) => t <= Val(end_time))}, limit * 2)
        kept == SmallestN(filter_market_hours(fetched, timeframe), limit)
        order == SortAsc(kept)
    IN  [i \in DOMAIN order |-> RowDict(Row(timeframe, order[i]))]

get_candles_before(timeframe, before_time, limit) ==
    LET fetched == LargestN({t \in TimesOf(timeframe) : t <= before_time}, limit * 2)
        kept == LargestN(filter_market_hours(fetched, timeframe), limit)
        order == SortAsc(kept)
    IN  [i \in DOMAIN order |-> RowDict(Row(timeframe, order[i]))]

get_candle_at_time(timeframe, current_time) ==
    LET T == {t \in TimesOf(timeframe) : t <= current_time}
    IN  IF T = {} THEN None ELSE Some(Row(timeframe, SetMax(T)))

get_current_price(timeframe, current_time) ==
    LET c == get_candle_at_time(timeframe, current_time)
    IN  IF IsSome(c) THEN Some(Val(c).close) ELSE None

-----------------------------------------------------------------------------
(* Candle aggregation (MarketDataService) *)

floor_hour(t) == t - minute(t)
floor_day7(t) == t - (t % MinutesPerDay) + OpenHour * MinutesPerHour

\* what a raised ValueError("Unsupported timeframe: ...") is to the caller
ValueError == "Unsupported timeframe"

\* the weekly bar always starts on the Monday of the week of current_time
calculate_candle_start_time_same_week(timeframe, current_time) ==
    CASE timeframe = "M10" -> current_time - (current_time % 10)
      [] timeframe = "H1" -> floor_hour(current_time)
      [] timeframe = "D1" ->
            IF hour(current_time) < OpenHour
            THEN floor_day7(current_time) - MinutesPerDay
            ELSE floor_day7(current_time)
      [] timeframe = "W1" ->
            floor_day7(current_time - weekday(current_time) * MinutesPerDay)
      [] OTHER -> ValueError

calculate_candle_start_time(timeframe, current_time) ==
    CASE timeframe = "M10" -> current_time - (current_time % 10)
      [] timeframe = "H1" -> floor_hour(current_time)
      [] timeframe = "D1" ->
            IF hour(current_time) < OpenHour
            THEN floor_day7(current_time) - MinutesPerDay
            ELSE floor_day7(current_time)
      [] timeframe = "W1" ->
            LET week_start == floor_day7(current_time - weekday(current_time) * MinutesPerDay)
            IN  IF weekday(current_time) = 0 /\ hour(current_time) < OpenHour
                THEN week_start - MinutesPerWeek
                ELSE week_start
      [] OTHER -> ValueError

source_timeframe(timeframe) ==
    CASE timeframe = "H1" -> "M10"
      [] timeframe = "D1" -> "H1"
      [] timeframe = "W1" -> "D1"

RECURSIVE SumVolume(_)
SumVolume(R) ==
    IF R = {} THEN 0
    ELSE LET r == CHOOSE x \in R : TRUE IN r.volume + SumVolume(R \ {r})

\* the close is taken from the earliest source row
Aggregate_close_of_first(ts, R) ==
    LET first == CHOOSE r \in R : \A q \in R : r.timestamp <= q.timestamp
    IN  Dict(ts, first.open,
             SetMax({r.high : r \in R}),
             SetMin({r.low : r \in R}),
             first.close,
             SumVolume(R),
             {<<r.timeframe, r.timestamp>> : r \in R})

\* the OHLCV of generate_partial_candle over a non-empty set of source rows
Aggregate(ts, R) ==
    LET first == CHOOSE r \in R : \A q \in R : r.timestamp <= q.timestamp
        last == CHOOSE r \in R : \A q \in R : r.timestamp >= q.timestamp
    IN  Dict(ts, first.open,
             SetMax({r.high : r \in R}),
             SetMin({r.low : r \in R}),
             last.close,
             SumVolume(R),
             {<<r.timeframe, r.timestamp>> : r \in R})

generate_partial_candle(timeframe, start_time, current_time) ==
    IF timeframe = "M10" THEN None
    ELSE LET src == source_timeframe(timeframe)
             T == filter_market_hours(
                      {t \in TimesOf(src) : t >= start_time /\ t <= current_time}, src)
         IN  IF T = {} THEN None
             ELSE Some(Aggregate(start_time, {Row(src, t) : t \in T}))

\* the body of the two M10 -> H1 grouping loops: fold one M10 row into its hour
FoldRow(h1, candle) ==
    LET o == IF candle.timestamp < h1.first_time THEN candle.open ELSE h1.open
        c == IF candle.timestamp > h1.last_time THEN candle.close ELSE h1.close
    IN  [timestamp |-> h1.timestamp,
         open |-> o,
         high |-> IF candle.high > h1.high THEN candle.high ELSE h1.high,
         low |-> IF candle.low < h1.low THEN candle.low ELSE h1.low,
         close |-> c,
         volume |-> h1.volume + candle.volume,
         src |-> h1.src \cup {<<candle.timeframe, candle.timestamp>>},
         first_time |-> IF candle.timestamp < h1.first_time THEN candle.timestamp ELSE h1.first_time,
         last_time |-> IF candle.timestamp > h1.last_time THEN candle.timestamp ELSE h1.last_time]

FirstRow(candle) ==
    [timestamp |-> floor_hour(candle.timestamp),
     open |-> candle.open, high |-> candle.high, low |-> candle.low, close |-> candle.close,
     volume |-> candle.volume,
     src |-> {<<candle.timeframe, candle.timestamp>>},
     first_time |-> candle.timestamp, last_time |-> candle.timestamp]

\* fold the M10 rows of one hour, in the order the loop visits them (ascending)
RECURSIVE GroupHour(_, _)
GroupHour(ts, i) ==
    IF i = 1 THEN FirstRow(Row("M10", ts[1]))
    ELSE FoldRow(GroupHour(ts, i - 1), Row("M10", ts[i]))

\* the generated H1 dict of one hour from the M10 timestamps T of that hour
GeneratedH1(T) ==
    LET g == GroupHour(SortAsc(T), Cardinality(T))
    IN  Dict(g.timestamp, g.open, g.high, g.low, g.close, g.volume, g.src)

\* filtered_candles: drop the bar stamped latest_candle_start, append the partial
ReplaceLast(series, timeframe, current_time) ==
    LET latest_candle_start == calculate_candle_start_time(timeframe, current_time)
        filtered_candles == SelectSeq(series, LAMBDA c : c.timestamp # latest_candle_start)
        partial_candle == generate_partial_candle(timeframe, latest_candle_start, current_time)
    IN  IF IsSome(partial_candle)
        THEN Append(filtered_candles, Val(partial_candle))
        ELSE filtered_candles

LastN(s, n) == IF Len(s) > n THEN SubSeq(s, Len(s) - n + 1, Len(s)) ELSE s

\* a series of dicts sorted by timestamp, given as a set with distinct timestamps
SortDicts(D) ==
    LET order == SortAsc({d.timestamp : d \in D})
    IN  [i \in DOMAIN order |-> CHOOSE d \in D : d.timestamp = order[i]]

_generate_h1_from_m10(current_time, limit) ==
    LET fetched == LargestN({t \in TimesOf("M10") : t <= current_time}, limit * 6 * 2)
        m10 == filter_market_hours(fetched, "M10")
        hours == {floor_hour(t) : t \in m10}
        generated == {GeneratedH1({t \in m10 : floor_hour(t) = h}) : h \in hours}
    IN  IF fetched = {} THEN [candles |-> <<>>, data_missing |-> TRUE]
        ELSE [candles |-> LastN(ReplaceLast(SortDicts(generated), "H1", current_time), limit),
              data_missing |-> FALSE]

\* missing hours are not regenerated
_get_h1_with_gap_fill_stored_only(current_time, limit) ==
    LET h1_candles == get_candles_before("H1", current_time, limit)
    IN  IF h1_candles = <<>> THEN _generate_h1_from_m10(current_time, limit)
        ELSE [candles |-> ReplaceLast(h1_candles, "H1", current_time), data_missing |-> FALSE]

_get_h1_with_gap_fill(current_time, limit) ==
    LET h1_candles == get_candles_before("H1", current_time, limit)
        h1_timestamps == {h1_candles[i].timestamp : i \in DOMAIN h1_candles}
        oldest_h1 == h1_candles[1].timestamp
        expected_timestamps ==
            {floor_hour(oldest_h1 + k * MinutesPerHour) :
                k \in {j \in 0..((current_time - oldest_h1) \div MinutesPerHour) :
                          is_market_open(oldest_h1 + j * MinutesPerHour)}}
        missing_timestamps == expected_timestamps \ h1_timestamps
        min_missing == SetMin(missing_timestamps)
        max_missing == SetMax(missing_timestamps) + MinutesPerHour
        m10 == filter_market_hours(
                   {t \in TimesOf("M10") : t >= min_missing /\ t < max_missing}, "M10")
        hours == {floor_hour(t) : t \in m10} \cap missing_timestamps
        generated_h1 == {GeneratedH1({t \in m10 : floor_hour(t) = h}) : h \in hours}
        all_candles == SortDicts(Range(h1_candles) \cup generated_h1)
    IN  IF h1_candles = <<>> THEN _generate_h1_from_m10(current_time, limit)
        ELSE IF missing_timestamps = {}
        THEN [candles |-> ReplaceLast(h1_candles, "H1", current_time), data_missing |-> FALSE]
        ELSE [candles |-> LastN(ReplaceLast(all_candles, "H1", current_time), limit),
              data_missing |-> FALSE]

\* step 2.5 left out: the daily bars keep their stored timestamps
AdjustD1_keeps(c) == c

\* step 2.5: a daily bar stamped before 07:00 is moved to 07:00 of the same date
AdjustD1(c) ==
    IF hour(c.timestamp) < OpenHour
    THEN [c EXCEPT !.timestamp = floor_day7(c.timestamp)]
    ELSE c

get_candles_with_partial_last(timeframe, current_time, limit) ==
    IF timeframe = "M10"
    THEN LET cs == get_candles_before("M10", current_time, limit)
         IN  [candles |-> cs, data_missing |-> cs = <<>>]
    ELSE IF timeframe = "H1" THEN _get_h1_with_gap_fill(current_time, limit)
    ELSE LET all_candles == get_candles_before(timeframe, current_time, limit)
             adjusted == IF timeframe = "D1"
                         THEN [i \in DOMAIN all_candles |-> AdjustD1(all_candles[i])]
                         ELSE all_candles
         IN  IF all_candles = <<>> THEN [candles |-> <<>>, data_missing |-> TRUE]
             ELSE [candles |-> ReplaceLast(adjusted, timeframe, current_time),
                   data_missing |-> FALSE]

-----------------------------------------------------------------------------
(* The database: the six tables a service call reads and writes, as one value *)

DB == [sims |-> sims, accounts |-> accounts, orders |-> orders,
       positions |-> positions, trades |-> trades, pendings |-> pendings]

\* A call yields the tables it leaves behind and the dict it returns.
Call(db, ret) == [db |-> db, ret |-> ret]
Ok == "ok"
Error(db, msg) == Call(db, [error |-> msg])

-----------------------------------------------------------------------------
(* Ledger arithmetic (TradingService) *)

LOT_UNIT == 100000
CURRENCY_PER_LOT == 100000
LEVERAGE == 25
LotScale == 100
StreakResetPips == 30
GapMinutes == 10
FindLimit == 100

ActiveStatuses == {"created", "running", "paused"}

\* the newest simulation, whatever its status
get_active_simulation_any_status(db) == Len(db.sims)

\* _get_active_simulation / get_active_simulation: the newest row with an
\* active status, 0 when there is none
get_active_simulation(db) ==
    LET A == {i \in DOMAIN db.sims : db.sims[i].status \in ActiveStatuses}
    IN  IF A = {} THEN 0 ELSE SetMax(A)

_calculate_required_margin(price, lot_size) ==
    (price * lot_size * (CURRENCY_PER_LOT \div LotScale)) \div LEVERAGE

OpenPositionsOf(db, sim) ==
    {i \in DOMAIN db.positions :
        db.positions[i].simulation_id = sim /\ db.positions[i].status = "open"}

RECURSIVE SumMargin(_, _)
SumMargin(ps, I) ==
    IF I = {} THEN 0
    ELSE LET i == CHOOSE x \in I : TRUE
         IN  _calculate_required_margin(ps[i].entry_price, ps[i].lot_size) + SumMargin(ps, I \ {i})

\* the margin check without the margin already in use
_get_total_used_margin_none(db, sim) == 0

_get_total_used_margin(db, sim) == SumMargin(db.positions, OpenPositionsOf(db, sim))

\* price -> pips and pips -> price of one level, relative to the entry price
PipsOfPrice(side, entry, price) == IF side = "buy" THEN price - entry ELSE entry - price
PriceOfPips(side, entry, pips) == IF side = "buy" THEN entry + pips ELSE entry - pips

\* the P&L in pips of a buy, whatever the side
PnlPips_as_buy(side, entry, exit) == exit - entry

PnlPips(side, entry, exit) == IF side = "buy" THEN exit - entry ELSE entry - exit
PnlMoney(pnl_pips, lot_size) == pnl_pips * lot_size * (LOT_UNIT \div LotScale)

\* the streak is reset only by a profit above 30 pips
Streak_resets_above(n, pnl_pips) ==
    IF pnl_pips < 0 THEN n + 1
    ELSE IF pnl_pips > StreakResetPips THEN 0
    ELSE n

\* the streak update of both close paths
Streak(n, pnl_pips) ==
    IF pnl_pips < 0 THEN n + 1
    ELSE IF pnl_pips >= StreakResetPips THEN 0
    ELSE n

NewTrade(position, pid, exit_price, realized_pnl, pnl_pips, t) ==
    [simulation_id |-> position.simulation_id,
     position_id |-> pid,
     side |-> position.side,
     lot_size |-> position.lot_size,
     entry_price |-> position.entry_price,
     exit_price |-> exit_price,
     realized_pnl |-> realized_pnl,
     realized_pnl_pips |-> pnl_pips,
     opened_at |-> position.opened_at,
     closed_at |-> t]

\* the manual close with a lot of 10,000 units
ClosePositionAt_mini_lot(db, simulation, pid, current_price) ==
    LET position == db.positions[pid]
        pnl_pips == PnlPips(position.side, position.entry_price, current_price)
        realized_pnl == pnl_pips * position.lot_size * (10000 \div LotScale)
        account == db.accounts[simulation]
        t == db.sims[simulation].current_time
    IN  [db EXCEPT
            !.positions = [@ EXCEPT ![pid].status = "closed", ![pid].closed_at = Some(t)],
            !.trades = Append(@, NewTrade(position, pid, current_price, realized_pnl, pnl_pips, t)),
            !.accounts = [@ EXCEPT ![simulation].balance = account.balance + realized_pnl,
                                   ![simulation].realized_pnl = account.realized_pnl + realized_pnl,
                                   ![simulation].consecutive_losses =
                                       Streak(account.consecutive_losses, pnl_pips)]]

\* close_position from the P&L computation on (lines 472-514): the position
\* pid of the simulation is closed at current_price
ClosePositionAt(db, simulation, pid, current_price) ==
    LET position == db.positions[pid]
        pnl_pips == PnlPips(position.side, position.entry_price, current_price)
        realized_pnl == PnlMoney(pnl_pips, position.lot_size)
        account == db.accounts[simulation]
        t == db.sims[simulation].current_time
    IN  [db EXCEPT
            !.positions = [@ EXCEPT ![pid].status = "closed", ![pid].closed_at = Some(t)],
            !.trades = Append(@, NewTrade(position, pid, current_price, realized_pnl, pnl_pips, t)),
            !.accounts = [@ EXCEPT ![simulation].balance = account.balance + realized_pnl,
                                   ![simulation].realized_pnl = account.realized_pnl + realized_pnl,
                                   ![simulation].consecutive_losses =
                                       Streak(account.consecutive_losses, pnl_pips)]]

\* the SL/TP close path without the balance update
_close_position_with_price_keeps_balance(db, pid, exit_price, current_time) ==
    LET position == db.positions[pid]
        pnl_pips == PnlPips(position.side, position.entry_price, exit_price)
        realized_pnl == PnlMoney(pnl_pips, position.lot_size)
        account == db.accounts[position.simulation_id]
    IN  [db EXCEPT
            !.positions = [@ EXCEPT ![pid].status = "closed", ![pid].closed_at = Some(current_time)],
            !.trades = Append(@, NewTrade(position, pid, exit_price, realized_pnl, pnl_pips,
                                          current_time)),
            !.accounts = [@ EXCEPT
                             ![position.simulation_id].realized_pnl =
                                 account.realized_pnl + realized_pnl]]

_close_position_with_price(db, pid, exit_price, current_time) ==
    LET position == db.positions[pid]
        pnl_pips == PnlPips(position.side, position.entry_price, exit_price)
        realized_pnl == PnlMoney(pnl_pips, position.lot_size)
        account == db.accounts[position.simulation_id]
    IN  [db EXCEPT
            !.positions = [@ EXCEPT ![pid].status = "closed", ![pid].closed_at = Some(current_time)],
            !.trades = Append(@, NewTrade(position, pid, exit_price, realized_pnl, pnl_pips,
                                          current_time)),
            !.accounts = [@ EXCEPT
                             ![position.simulation_id].balance = account.balance + realized_pnl,
                             ![position.simulation_id].realized_pnl =
                                 account.realized_pnl + realized_pnl,
                             ![position.simulation_id].consecutive_losses =
                                 Streak(account.consecutive_losses, pnl_pips)]]

\* A query without ORDER BY returns its rows in any order: an order is a
\* ranking of the ids, and a query result is the ranking restricted to its rows.
Rankings(n) == {s \in [1..n -> 1..n] : \A i, j \in 1..n : i # j => s[i] # s[j]}
InOrder(order, I) == SelectSeq(order, LAMBDA id : id \in I)

-----------------------------------------------------------------------------
(* TradingService: market orders *)

\* SL/TP arguments of create_order and set_sltp
Levels(sl_price, tp_price, sl_pips, tp_pips) ==
    [sl_price |-> sl_price, tp_price |-> tp_price, sl_pips |-> sl_pips, tp_pips |-> tp_pips]
NoLevels == Levels(None, None, None, None)

\* one level from its arguments: price given, pips given, or neither
SetLevel(side, entry, price, pips) ==
    IF IsSome(price) THEN <<price, Some(PipsOfPrice(side, entry, Val(price)))>>
    ELSE IF IsSome(pips) THEN <<Some(PriceOfPips(side, entry, Val(pips))), pips>>
    ELSE <<None, None>>

\* the SL/TP fields of a new position (create_order 265-293)
InitialLevels(side, entry, lv) ==
    LET sl == SetLevel(side, entry, lv.sl_price, lv.sl_pips)
        tp == SetLevel(side, entry, lv.tp_price, lv.tp_pips)
    IN  [sl_price |-> sl[1], sl_pips |-> sl[2], tp_price |-> tp[1], tp_pips |-> tp[2]]

NewOrder(sim, side, lot_size, entry_price, t) ==
    [simulation_id |-> sim, side |-> side, lot_size |-> lot_size,
     entry_price |-> entry_price, executed_at |-> t]

\* every position references the first order of the table
NewPosition_first_order(sim, order_id, side, lot_size, entry_price, t, lv) ==
    [simulation_id |-> sim, order_id |-> 1, side |-> side, lot_size |-> lot_size,
     entry_price |-> entry_price, status |-> "open", opened_at |-> t, closed_at |-> None,
     sl_price |-> lv.sl_price, tp_price |-> lv.tp_price,
     sl_pips |-> lv.sl_pips, tp_pips |-> lv.tp_pips]

NewPosition(sim, order_id, side, lot_size, entry_price, t, lv) ==
    [simulation_id |-> sim, order_id |-> order_id, side |-> side, lot_size |-> lot_size,
     entry_price |-> entry_price, status |-> "open", opened_at |-> t, closed_at |-> None,
     sl_price |-> lv.sl_price, tp_price |-> lv.tp_price,
     sl_pips |-> lv.sl_pips, tp_pips |-> lv.tp_pips]

create_order(db, side, lot_size, lv) ==
    LET simulation == get_active_simulation(db)
        current_time == db.sims[simulation].current_time
        current_price == get_current_price("M10", current_time)
        required_margin == _calculate_required_margin(Val(current_price), lot_size)
        used_margin == _get_total_used_margin(db, simulation)
    IN  IF simulation = 0 THEN Error(db, "No active simulation")
        ELSE IF db.sims[simulation].status \notin {"running", "paused"}
        THEN Error(db, "Simulation is not running or paused")
        ELSE IF ~IsSome(current_price) THEN Error(db, "Could not get current price")
        ELSE IF used_margin + required_margin > db.accounts[simulation].balance
        THEN Error(db, "Insufficient margin")
        ELSE Call([db EXCEPT
                      !.orders = Append(@, NewOrder(simulation, side, lot_size,
                                                    Val(current_price), current_time)),
                      !.positions = Append(@, NewPosition(simulation, Len(db.orders) + 1, side,
                                                          lot_size, Val(current_price),
                                                          current_time,
                                                          InitialLevels(side, Val(current_price),
                                                                        lv)))],
                  [error |-> Ok, order_id |-> Len(db.orders) + 1,
                   position_id |-> Len(db.positions) + 1,
                   entry_price |-> Val(current_price)])

\* close_position without the status filter of its lookup
close_position_any_status(db, position_id) ==
    LET simulation == get_active_simulation(db)
        found == /\ position_id \in DOMAIN db.positions
                 /\ db.positions[position_id].simulation_id = simulation
        current_price == get_current_price("M10", db.sims[simulation].current_time)
    IN  IF simulation = 0 THEN Error(db, "No active simulation")
        ELSE IF db.sims[simulation].status \notin {"running", "paused"}
        THEN Error(db, "Simulation is not running or paused")
        ELSE IF ~found THEN Error(db, "Position not found")
        ELSE IF ~IsSome(current_price) THEN Error(db, "Could not get current price")
        ELSE Call(ClosePositionAt(db, simulation, position_id, Val(current_price)),
                  [error |-> Ok, position_id |-> position_id,
                   trade_id |-> Len(db.trades) + 1, exit_price |-> Val(current_price)])

close_position(db, position_id) ==
    LET simulation == get_active_simulation(db)
        found == /\ position_id \in DOMAIN db.positions
                 /\ db.positions[position_id].simulation_id = simulation
                 /\ db.positions[position_id].status = "open"
        current_price == get_current_price("M10", db.sims[simulation].current_time)
    IN  IF simulation = 0 THEN Error(db, "No active simulation")
        ELSE IF db.sims[simulation].status \notin {"running", "paused"}
        THEN Error(db, "Simulation is not running or paused")
        ELSE IF ~found THEN Error(db, "Position not found")
        ELSE IF ~IsSome(current_price) THEN Error(db, "Could not get current price")
        ELSE Call(ClosePositionAt(db, simulation, position_id, Val(current_price)),
                  [error |-> Ok, position_id |-> position_id,
                   trade_id |-> Len(db.trades) + 1, exit_price |-> Val(current_price)])

\* set_sltp, where a level the call does not supply keeps its value
set_sltp_keeping(db, position_id, lv) ==
    LET simulation == get_active_simulation(db)
        found == /\ position_id \in DOMAIN db.positions
                 /\ db.positions[position_id].simulation_id = simulation
                 /\ db.positions[position_id].status = "open"
        position == db.positions[position_id]
        sl == IF IsSome(lv.sl_price) \/ IsSome(lv.sl_pips)
              THEN SetLevel(position.side, position.entry_price, lv.sl_price, lv.sl_pips)
              ELSE <<position.sl_price, position.sl_pips>>
        tp == IF IsSome(lv.tp_price) \/ IsSome(lv.tp_pips)
              THEN SetLevel(position.side, position.entry_price, lv.tp_price, lv.tp_pips)
              ELSE <<position.tp_price, position.tp_pips>>
    IN  IF simulation = 0 THEN Error(db, "No active simulation")
        ELSE IF ~found THEN Error(db, "Position not found or already closed")
        ELSE IF IsSome(lv.sl_price) /\ IsSome(lv.sl_pips)
        THEN Error(db, "Cannot specify both sl_price and sl_pips")
        ELSE IF IsSome(lv.tp_price) /\ IsSome(lv.tp_pips)
        THEN Error(db, "Cannot specify both tp_price and tp_pips")
        ELSE Call([db EXCEPT !.positions[position_id].sl_price = sl[1],
                             !.positions[position_id].sl_pips = sl[2],
                             !.positions[position_id].tp_price = tp[1],
                             !.positions[position_id].tp_pips = tp[2]],
                  [error |-> Ok, position_id |-> position_id,
                   sl_price |-> sl[1], tp_price |-> tp[1]])

set_sltp(db, position_id, lv) ==
    LET simulation == get_active_simulation(db)
        found == /\ position_id \in DOMAIN db.positions
                 /\ db.positions[position_id].simulation_id = simulation
                 /\ db.positions[position_id].status = "open"
        position == db.positions[position_id]
        sl == SetLevel(position.side, position.entry_price, lv.sl_price, lv.sl_pips)
        tp == SetLevel(position.side, position.entry_price, lv.tp_price, lv.tp_pips)
    IN  IF simulation = 0 THEN Error(db, "No active simulation")
        ELSE IF ~found THEN Error(db, "Position not found or already closed")
        ELSE IF IsSome(lv.sl_price) /\ IsSome(lv.sl_pips)
        THEN Error(db, "Cannot specify both sl_price and sl_pips")
        ELSE IF IsSome(lv.tp_price) /\ IsSome(lv.tp_pips)
        THEN Error(db, "Cannot specify both tp_price and tp_pips")
        ELSE Call([db EXCEPT !.positions[position_id].sl_price = sl[1],
                             !.positions[position_id].sl_pips = sl[2],
                             !.positions[position_id].tp_price = tp[1],
                             !.positions[position_id].tp_pips = tp[2]],
                  [error |-> Ok, position_id |-> position_id,
                   sl_price |-> sl[1], tp_price |-> tp[1]])

\* the order route without its checks of the request
create_order_route_unchecked(db, side, lot_size, lv) == create_order(db, side, lot_size, lv)

\* POST /orders (routes/orders.py 35-83): the request is checked, then passed
\* to the service; an HTTP 400 is the error of the call
create_order_route(db, side, lot_size, lv) ==
    IF lot_size < 1 \/ lot_size > 100 * LotScale
    THEN Error(db, "Lot size must be between 0.01 and 100.0")
    ELSE IF IsSome(lv.sl_price) /\ IsSome(lv.sl_pips)
    THEN Error(db, "Cannot specify both sl_price and sl_pips")
    ELSE IF IsSome(lv.tp_price) /\ IsSome(lv.tp_pips)
    THEN Error(db, "Cannot specify both tp_price and tp_pips")
    ELSE create_order(db, side, lot_size, lv)

\* PUT /positions/{position_id}/sl-tp (routes/positions.py 78-124)
set_sltp_route(db, position_id, lv) ==
    IF IsSome(lv.sl_price) /\ IsSome(lv.sl_pips)
    THEN Error(db, "Cannot specify both sl_price and sl_pips")
    ELSE IF IsSome(lv.tp_price) /\ IsSome(lv.tp_pips)
    THEN Error(db, "Cannot specify both tp_price and tp_pips")
    ELSE set_sltp(db, position_id, lv)

-----------------------------------------------------------------------------
(* TradingService: SL/TP levels as the columns store them *)

\* The positions table keeps prices with five decimals and pips with two.
\* Here a price is in points (0.00001 yen) and a pips argument in thousandths
\* of a pip (one point each); stored pips are in hundredths of a pip.
PointsPerPip == 1000
PointsPerCentiPip == 10

\* the pips column drops every digit after the second decimal
RoundCentiPips_truncates(points) == {points \div PointsPerCentiPip}

\* the hundredths of a pip the pips column holds for a value of so many
\* points: the nearest; a value half-way is a float a hair above or below the
\* half, and goes to either neighbour
RoundCentiPips(points) ==
    {c \in {points \div PointsPerCentiPip, (points \div PointsPerCentiPip) + 1} :
        /\ 2 * (points - c * PointsPerCentiPip) <= PointsPerCentiPip
        /\ 2 * (c * PointsPerCentiPip - points) <= PointsPerCentiPip}

\* the (price, pips) pairs one level can be stored as: the price as given and
\* the pips derived from it, or the pips as given and the price derived
StoredLevel(side, entry, price, pips) ==
    IF IsSome(price)
    THEN {<<price, Some(c)>> : c \in RoundCentiPips(PipsOfPrice(side, entry, Val(price)))}
    ELSE IF IsSome(pips)
    THEN {<<Some(PriceOfPips(side, entry, Val(pips))), Some(c)>> : c \in RoundCentiPips(Val(pips))}
    ELSE {<<None, None>>}

-----------------------------------------------------------------------------
(* TradingService: the account *)

\* _get_latest_simulation: the active simulation, else the newest row, 0 when
\* the table is empty
_get_latest_simulation(db) ==
    LET active == get_active_simulation(db)
    IN  IF active # 0 THEN active ELSE Len(db.sims)

\* get_positions: the open positions of the active simulation with their P&L at
\* the current price, and the total.  The list (ordered by opened_at) is given
\* as the set of its dicts: its callers add over it.
UnrealizedPnl(db, pid, current_price) ==
    LET p == db.positions[pid]
    IN  IF current_price # 0 /\ p.entry_price # 0
        THEN PnlMoney(PnlPips(p.side, p.entry_price, current_price), p.lot_size)
        ELSE 0

RECURSIVE TotalUnrealized(_, _, _)
TotalUnrealized(db, I, current_price) ==
    IF I = {} THEN 0
    ELSE LET i == CHOOSE x \in I : TRUE
         IN  UnrealizedPnl(db, i, current_price) + TotalUnrealized(db, I \ {i}, current_price)

get_positions(db) ==
    LET simulation == get_active_simulation(db)
        price == get_current_price("M10", db.sims[simulation].current_time)
        current_price == IF IsSome(price) THEN Val(price) ELSE 0
        open == OpenPositionsOf(db, simulation)
    IN  IF simulation = 0 THEN [positions |-> {}, total_unrealized_pnl |-> 0]
        ELSE [positions |->
                 {[position_id |-> pid,
                   side |-> db.positions[pid].side,
                   lot_size |-> db.positions[pid].lot_size,
                   entry_price |-> db.positions[pid].entry_price,
                   current_price |-> current_price,
                   unrealized_pnl |-> UnrealizedPnl(db, pid, current_price)] : pid \in open},
              total_unrealized_pnl |-> TotalUnrealized(db, open, current_price)]

\* the loop of get_account_info over the listed positions of one side
RECURSIVE SideMargin(_, _)
SideMargin(position_list, side) ==
    LET S == {p \in position_list : p.side = side}
    IN  IF S = {} THEN 0
        ELSE LET p == CHOOSE x \in S : TRUE
             IN  _calculate_required_margin(p.entry_price, p.lot_size)
                    + SideMargin(position_list \ {p}, side)

NoAccount ==
    [balance |-> 0, equity |-> 0, unrealized_pnl |-> 0, realized_pnl |-> 0,
     initial_balance |-> 0, margin_used |-> 0, margin_available |-> 0,
     consecutive_losses |-> 0]

\* the used margin is the sum of both sides
get_account_info_both_sides(db) ==
    LET simulation == _get_latest_simulation(db)
        account == db.accounts[simulation]
        positions_data == get_positions(db)
        unrealized_pnl == positions_data.total_unrealized_pnl
        equity == account.balance + unrealized_pnl
        buy_margin == SideMargin(positions_data.positions, "buy")
        sell_margin == SideMargin(positions_data.positions, "sell")
        margin_used == buy_margin + sell_margin
    IN  IF simulation = 0 THEN Call(db, NoAccount)
        ELSE Call([db EXCEPT !.accounts[simulation].equity = equity],
                  [balance |-> account.balance, equity |-> equity,
                   unrealized_pnl |-> unrealized_pnl, realized_pnl |-> account.realized_pnl,
                   initial_balance |-> account.initial_balance,
                   margin_used |-> margin_used, margin_available |-> equity - margin_used,
                   consecutive_losses |-> account.consecutive_losses])

\* get_account_info: the account of the latest simulation; the equity is
\* written to the account and committed
get_account_info(db) ==
    LET simulation == _get_latest_simulation(db)
        account == db.accounts[simulation]
        positions_data == get_positions(db)
        unrealized_pnl == positions_data.total_unrealized_pnl
        equity == account.balance + unrealized_pnl
        buy_margin == SideMargin(positions_data.positions, "buy")
        sell_margin == SideMargin(positions_data.positions, "sell")
        margin_used == IF buy_margin > sell_margin THEN buy_margin ELSE sell_margin
    IN  IF simulation = 0 THEN Call(db, NoAccount)
        ELSE Call([db EXCEPT !.accounts[simulation].equity = equity],
                  [balance |-> account.balance, equity |-> equity,
                   unrealized_pnl |-> unrealized_pnl, realized_pnl |-> account.realized_pnl,
                   initial_balance |-> account.initial_balance,
                   margin_used |-> margin_used, margin_available |-> equity - margin_used,
                   consecutive_losses |-> account.consecutive_losses])

-----------------------------------------------------------------------------
(* TradingService: pending orders *)

\* create_pending_order without the status check
create_pending_order_any_status(db, order_type, side, lot_size, trigger_price) ==
    LET simulation == get_active_simulation(db)
    IN  IF simulation = 0 THEN Error(db, "No active simulation")
        ELSE Call([db EXCEPT !.pendings = Append(@, [simulation_id |-> simulation,
                                                     order_type |-> order_type,
                                                     side |-> side,
                                                     lot_size |-> lot_size,
                                                     trigger_price |-> trigger_price,
                                                     status |-> "pending",
                                                     executed_at |-> None])],
                  [error |-> Ok, order_id |-> Len(db.pendings) + 1, status |-> "pending"])

create_pending_order(db, order_type, side, lot_size, trigger_price) ==
    LET simulation == get_active_simulation(db)
    IN  IF simulation = 0 THEN Error(db, "No active simulation")
        ELSE IF db.sims[simulation].status \notin {"running", "paused"}
        THEN Error(db, "Simulation is not running or paused")
        ELSE Call([db EXCEPT !.pendings = Append(@, [simulation_id |-> simulation,
                                                     order_type |-> order_type,
                                                     side |-> side,
                                                     lot_size |-> lot_size,
                                                     trigger_price |-> trigger_price,
                                                     status |-> "pending",
                                                     executed_at |-> None])],
                  [error |-> Ok, order_id |-> Len(db.pendings) + 1, status |-> "pending"])

\* update_pending_order and cancel_pending_order look up the order of the
\* active simulation with that id that is still pending; PendingFound_any_status
\* is the lookup without the status filter
PendingFound_any_status(db, simulation, order_id) ==
    /\ order_id \in DOMAIN db.pendings
    /\ db.pendings[order_id].simulation_id = simulation

PendingFound(db, simulation, order_id) ==
    /\ order_id \in DOMAIN db.pendings
    /\ db.pendings[order_id].simulation_id = simulation
    /\ db.pendings[order_id].status = "pending"

update_pending_order(db, order_id, lot_size, trigger_price) ==
    LET simulation == get_active_simulation(db)
        order == db.pendings[order_id]
    IN  IF simulation = 0 THEN Error(db, "No active simulation")
        ELSE IF ~PendingFound(db, simulation, order_id)
        THEN Error(db, "Pending order not found or already executed/cancelled")
        ELSE Call([db EXCEPT
                      !.pendings[order_id].lot_size =
                          IF IsSome(lot_size) THEN Val(lot_size) ELSE order.lot_size,
                      !.pendings[order_id].trigger_price =
                          IF IsSome(trigger_price) THEN Val(trigger_price)
                          ELSE order.trigger_price],
                  [error |-> Ok, order_id |-> order_id, status |-> "pending"])

cancel_pending_order(db, order_id) ==
    LET simulation == get_active_simulation(db)
    IN  IF simulation = 0 THEN Error(db, "No active simulation")
        ELSE IF ~PendingFound(db, simulation, order_id)
        THEN Error(db, "Pending order not found or already executed/cancelled")
        ELSE Call([db EXCEPT !.pendings[order_id].status = "cancelled"],
                  [error |-> Ok, order_id |-> order_id, status |-> "cancelled"])

-----------------------------------------------------------------------------
(* Trigger evaluation *)

\* the execution condition of one pending order against one M10 row
\* the execution condition of one pending order against one M10 row;
\* should_execute_as_limit reads stop orders as limit orders
should_execute_as_limit(pending_order, candle) ==
    IF pending_order.side = "buy"
    THEN candle.low <= pending_order.trigger_price
    ELSE candle.high >= pending_order.trigger_price

should_execute(pending_order, candle) ==
    IF pending_order.order_type = "limit"
    THEN IF pending_order.side = "buy"
         THEN candle.low <= pending_order.trigger_price
         ELSE candle.high >= pending_order.trigger_price
    ELSE IF pending_order.side = "buy"
         THEN candle.high >= pending_order.trigger_price
         ELSE candle.low <= pending_order.trigger_price

\* the loop of check_pending_orders_execution over the rows the query returned
RECURSIVE ExecutePending(_, _, _, _, _)
ExecutePending(db, pending_orders, i, candle, current_time) ==
    IF i > Len(pending_orders) THEN db
    ELSE LET id == pending_orders[i]
             pending_order == db.pendings[id]
             next ==
                IF should_execute(pending_order, candle)
                THEN [db EXCEPT
                         !.orders = Append(@, NewOrder(pending_order.simulation_id,
                                                       pending_order.side,
                                                       pending_order.lot_size,
                                                       pending_order.trigger_price,
                                                       current_time)),
                         !.positions = Append(@, NewPosition(pending_order.simulation_id,
                                                             Len(db.orders) + 1,
                                                             pending_order.side,
                                                             pending_order.lot_size,
                                                             pending_order.trigger_price,
                                                             current_time, NoLevels)),
                         !.pendings[id].status = "executed",
                         !.pendings[id].executed_at = Some(current_time)]
                ELSE db
         IN  ExecutePending(next, pending_orders, i + 1, candle, current_time)

\* the pending orders are executed only within the margin that is free when
\* the evaluation starts
check_pending_orders_execution_within_margin(db, simulation_id, current_time, order) ==
    LET pending_orders == InOrder(order, {i \in DOMAIN db.pendings :
                                             /\ db.pendings[i].simulation_id = simulation_id
                                             /\ db.pendings[i].status = "pending"
                                             /\ _get_total_used_margin(db, simulation_id)
                                                   + _calculate_required_margin(
                                                        db.pendings[i].trigger_price,
                                                        db.pendings[i].lot_size)
                                                <= db.accounts[simulation_id].balance})
        candle == get_candle_at_time("M10", current_time)
    IN  IF pending_orders = <<>> \/ ~IsSome(candle) THEN db
        ELSE ExecutePending(db, pending_orders, 1, Val(candle), current_time)

check_pending_orders_execution(db, simulation_id, current_time, order) ==
    LET pending_orders == InOrder(order, {i \in DOMAIN db.pendings :
                                             /\ db.pendings[i].simulation_id = simulation_id
                                             /\ db.pendings[i].status = "pending"})
        candle == get_candle_at_time("M10", current_time)
    IN  IF pending_orders = <<>> \/ ~IsSome(candle) THEN db
        ELSE ExecutePending(db, pending_orders, 1, Val(candle), current_time)

\* the SL condition with strict comparisons
sl_triggered_strict(position, candle) ==
    /\ IsSome(position.sl_price)
    /\ IF position.side = "buy"
       THEN candle.low < Val(position.sl_price)
       ELSE candle.high > Val(position.sl_price)

sl_triggered(position, candle) ==
    /\ IsSome(position.sl_price)
    /\ IF position.side = "buy"
       THEN candle.low <= Val(position.sl_price)
       ELSE candle.high >= Val(position.sl_price)

tp_triggered(position, candle) ==
    /\ IsSome(position.tp_price)
    /\ IF position.side = "buy"
       THEN candle.high >= Val(position.tp_price)
       ELSE candle.low <= Val(position.tp_price)

\* the loop of check_sltp_triggers over the positions in the order the query
\* returned them; R = [db, triggered, conflicts]
RECURSIVE EvaluateSLTP(_, _, _, _, _)
EvaluateSLTP(R, open_positions, i, candle, current_time) ==
    IF i > Len(open_positions) THEN R
    ELSE LET pid == open_positions[i]
             position == R.db.positions[pid]
             sl == sl_triggered(position, candle)
             tp == tp_triggered(position, candle)
             next ==
                IF sl /\ tp
                THEN [R EXCEPT !.conflicts = @ \cup {pid}]
                ELSE IF sl
                THEN [db |-> _close_position_with_price(R.db, pid, Val(position.sl_price),
                                                        current_time),
                      triggered |-> R.triggered \cup
                          {[position_id |-> pid, trigger_type |-> "sl",
                            exit_price |-> Val(position.sl_price)]},
                      conflicts |-> R.conflicts]
                ELSE IF tp
                THEN [db |-> _close_position_with_price(R.db, pid, Val(position.tp_price),
                                                        current_time),
                      triggered |-> R.triggered \cup
                          {[position_id |-> pid, trigger_type |-> "tp",
                            exit_price |-> Val(position.tp_price)]},
                      conflicts |-> R.conflicts]
                ELSE R
         IN  EvaluateSLTP(next, open_positions, i + 1, candle, current_time)

\* the positions check_sltp_triggers selects
SLTPCandidates(db, simulation_id) ==
    {i \in DOMAIN db.positions : /\ db.positions[i].simulation_id = simulation_id
                                 /\ db.positions[i].status = "open"
                                 /\ (IsSome(db.positions[i].sl_price)
                                     \/ IsSome(db.positions[i].tp_price))}

\* check_sltp_triggers, where a conflicting position loses its levels
check_sltp_triggers_clearing(db, simulation_id, current_time, order) ==
    LET open_positions == InOrder(order, SLTPCandidates(db, simulation_id))
        candle == get_candle_at_time("M10", current_time)
        R0 == [db |-> db, triggered |-> {}, conflicts |-> {}]
        R == EvaluateSLTP(R0, open_positions, 1, Val(candle), current_time)
    IN  IF open_positions = <<>> \/ ~IsSome(candle) THEN R0
        ELSE [R EXCEPT !.db.positions =
                 [i \in DOMAIN @ |-> IF i \in R.conflicts
                                     THEN [@[i] EXCEPT !.sl_price = None, !.tp_price = None]
                                     ELSE @[i]]]

check_sltp_triggers(db, simulation_id, current_time, order) ==
    LET open_positions == InOrder(order, SLTPCandidates(db, simulation_id))
        candle == get_candle_at_time("M10", current_time)
        R0 == [db |-> db, triggered |-> {}, conflicts |-> {}]
    IN  IF open_positions = <<>> \/ ~IsSome(candle) THEN R0
        ELSE EvaluateSLTP(R0, open_positions, 1, Val(candle), current_time)

-----------------------------------------------------------------------------
(* SimulationService *)

\* the active simulation is stopped the way stop does it for the pending
\* orders: they are cancelled
Supersede_cancels_pending(db) ==
    LET active == get_active_simulation(db)
    IN  IF active = 0 THEN db
        ELSE [db EXCEPT
                 !.sims[active].status = "stopped",
                 !.pendings = [i \in DOMAIN @ |->
                                  IF @[i].simulation_id = active /\ @[i].status = "pending"
                                  THEN [@[i] EXCEPT !.status = "cancelled"]
                                  ELSE @[i]]]

\* lines 96-104: the active simulation, if there is one, is marked stopped
Supersede(db) ==
    LET active == get_active_simulation(db)
    IN  IF active = 0 THEN db ELSE [db EXCEPT !.sims[active].status = "stopped"]

\* start without superseding the active simulation
start_keeps_active(db, start_time, initial_balance) ==
    Call([db EXCEPT
             !.sims = Append(@, [status |-> "created",
                                 start_time |-> start_time,
                                 current_time |-> start_time]),
             !.accounts = Append(@, [initial_balance |-> initial_balance,
                                     balance |-> initial_balance,
                                     equity |-> initial_balance,
                                     realized_pnl |-> 0,
                                     consecutive_losses |-> 0])],
         [error |-> Ok, status |-> "created", current_time |-> start_time,
          balance |-> initial_balance])

start(db, start_time, initial_balance) ==
    LET stopped == Supersede(db)
    IN  Call([stopped EXCEPT
                 !.sims = Append(@, [status |-> "created",
                                     start_time |-> start_time,
                                     current_time |-> start_time]),
                 !.accounts = Append(@, [initial_balance |-> initial_balance,
                                         balance |-> initial_balance,
                                         equity |-> initial_balance,
                                         realized_pnl |-> 0,
                                         consecutive_losses |-> 0])],
             [error |-> Ok, status |-> "created", current_time |-> start_time,
              balance |-> initial_balance])

\* pause without the status check
pause_any_status(db) ==
    LET simulation == get_active_simulation(db)
    IN  IF simulation = 0 THEN Error(db, "No active simulation")
        ELSE Call([db EXCEPT !.sims[simulation].status = "paused"],
                  [error |-> Ok, status |-> "paused"])

pause(db) ==
    LET simulation == get_active_simulation(db)
    IN  IF simulation = 0 THEN Error(db, "No active simulation")
        ELSE IF db.sims[simulation].status # "running" THEN Error(db, "Simulation is not running")
        ELSE Call([db EXCEPT !.sims[simulation].status = "paused"],
                  [error |-> Ok, status |-> "paused"])

resume(db) ==
    LET simulation == get_active_simulation(db)
    IN  IF simulation = 0 THEN Error(db, "No active simulation")
        ELSE IF db.sims[simulation].status \notin {"created", "paused"}
        THEN Error(db, "Simulation must be in 'created' or 'paused' status")
        ELSE Call([db EXCEPT !.sims[simulation].status = "running"],
                  [error |-> Ok, status |-> "running"])

\* stop closes the open positions one by one (lines 170-176); a close that
\* raises is logged and skipped, and so is one that returns an error
RECURSIVE CloseAll(_, _, _, _)
CloseAll(db, open_positions, i, raising) ==
    IF i = 0 THEN db
    ELSE LET before == CloseAll(db, open_positions, i - 1, raising)
         IN  IF open_positions[i] \in raising THEN before
             ELSE close_position(before, open_positions[i]).db

\* no pending order is cancelled
CancelPendings_none(db, simulation) == db.pendings

\* lines 178-189: the pending orders of the simulation are cancelled
CancelPendings(db, simulation) ==
    [i \in DOMAIN db.pendings |->
        IF db.pendings[i].simulation_id = simulation /\ db.pendings[i].status = "pending"
        THEN [db.pendings[i] EXCEPT !.status = "cancelled"]
        ELSE db.pendings[i]]

\* an exception of close_position ends stop with an error
stop_raising_aborts(db, order, raising) ==
    LET simulation == get_active_simulation(db)
        open_positions == InOrder(order, OpenPositionsOf(db, simulation))
        closed == CloseAll(db, open_positions, Len(open_positions), {})
        after == [closed EXCEPT !.pendings = CancelPendings(closed, simulation),
                                !.sims[simulation].status = "stopped"]
    IN  IF simulation = 0 THEN Error(db, "No active simulation")
        ELSE IF raising \cap Range(open_positions) # {} THEN Error(db, "exception")
        ELSE Call(after,
                  [error |-> Ok, status |-> "stopped",
                   final_balance |-> after.accounts[simulation].balance,
                   total_trades |-> Cardinality({i \in DOMAIN after.trades :
                                                    after.trades[i].simulation_id = simulation}),
                   profit_loss |-> after.accounts[simulation].realized_pnl])

\* stop, where close_position raises for the positions in raising
stop_raising(db, order, raising) ==
    LET simulation == get_active_simulation(db)
        open_positions == InOrder(order, OpenPositionsOf(db, simulation))
        closed == CloseAll(db, open_positions, Len(open_positions), raising)
        after == [closed EXCEPT !.pendings = CancelPendings(closed, simulation),
                                !.sims[simulation].status = "stopped"]
    IN  IF simulation = 0 THEN Error(db, "No active simulation")
        ELSE Call(after,
                  [error |-> Ok, status |-> "stopped",
                   final_balance |-> after.accounts[simulation].balance,
                   total_trades |-> Cardinality({i \in DOMAIN after.trades :
                                                    after.trades[i].simulation_id = simulation}),
                   profit_loss |-> after.accounts[simulation].realized_pnl])

\* stop when no close raises
stop(db, order) == stop_raising(db, order, {})

\* the first stored bar after after_time that lies in market hours, among the
\* next FindLimit bars
_find_next_available_data(timeframe, after_time) ==
    LET candidates == SmallestN({t \in TimesOf(timeframe) : t > after_time}, FindLimit)
        open == {t \in candidates : is_market_open(t)}
    IN  IF open = {} THEN None ELSE Some(SetMin(open))

\* the time advance_time settles on for new_time (lines 380-402), None at the
\* end of the data
SettledTime(new_time) ==
    IF ~is_market_open(new_time)
    THEN _find_next_available_data("M10", new_time)
    ELSE LET cs == get_candles_before("M10", new_time, 1)
         IN  IF cs = <<>> \/ new_time - cs[1].timestamp > GapMinutes
             THEN _find_next_available_data("M10", new_time)
             ELSE Some(new_time)

\* advance_time without the status check
advance_time_any_status(db, new_time, order) ==
    LET simulation == get_active_simulation(db)
        settled == SettledTime(new_time)
        t == Val(settled)
        moved == [db EXCEPT !.sims[simulation].current_time = t]
        executed == check_pending_orders_execution(moved, simulation, t, order)
        sltp_result == check_sltp_triggers(executed, simulation, t, order)
    IN  IF simulation = 0 THEN Error(db, "No active simulation")
        ELSE IF ~IsSome(settled)
        THEN Error(db, "No more data available - simulation reached end of data")
        ELSE Call(sltp_result.db,
                  [error |-> Ok, current_time |-> t, skipped |-> (t # new_time),
                   sltp_triggered |-> sltp_result.triggered,
                   sltp_conflicts |-> sltp_result.conflicts])

advance_time(db, new_time, order) ==
    LET simulation == get_active_simulation(db)
        settled == SettledTime(new_time)
        t == Val(settled)
        moved == [db EXCEPT !.sims[simulation].current_time = t]
        executed == check_pending_orders_execution(moved, simulation, t, order)
        sltp_result == check_sltp_triggers(executed, simulation, t, order)
    IN  IF simulation = 0 THEN Error(db, "No active simulation")
        ELSE IF db.sims[simulation].status # "running" THEN Error(db, "Simulation is not running")
        ELSE IF ~IsSome(settled)
        THEN Error(db, "No more data available - simulation reached end of data")
        ELSE Call(sltp_result.db,
                  [error |-> Ok, current_time |-> t, skipped |-> (t # new_time),
                   sltp_triggered |-> sltp_result.triggered,
                   sltp_conflicts |-> sltp_result.conflicts])
-----------------------------------------------------------------------------
(* Candle queries *)

AsOfTimes ==
    { At(0, 4, 22, 30), At(0, 4, 23, 0), Fri2330, Fri2330 + 10, Fri2330 + 15, Fri2330 + 20,
      At(0, 5, 3, 0), At(0, 6, 12, 0), At(1, 0, 3, 0),
      Mon0700, Mon0700 + 10, Mon0700 + 20, Mon0700 + 30, Mon0700 + 65 }

\* GET /candles/partial: the series is computed and handed to the chart
GetCandles ==
    \E timeframe \in Timeframes, current_time \in AsOfTimes, limit \in 1..MaxLimit :
       LET r == get_candles_with_partial_last(timeframe, current_time, limit)
       IN  /\ query' = [timeframe |-> timeframe, current_time |-> current_time,
                        limit |-> limit, candles |-> r.candles,
                        data_missing |-> r.data_missing]
           /\ UNCHANGED <<candles, sims, accounts, orders, positions, trades, pendings, advance>>

-----------------------------------------------------------------------------
(* Inputs of the service calls *)

StartTimes == {Fri2330}
InitialBalances == {10000000}
LotSizes == {10}
Sides == {"buy", "sell"}
OrderTypes == {"limit", "stop"}

\* new_time arguments of advance_time: the Friday close, the bar after it,
\* inside the weekend, and past the end of the data
NewTimes == { Fri2330, Fri2330 + 10, At(0, 5, 8, 0), Mon0700 + 30 }

LevelInputs ==
    { NoLevels,
      Levels(Some(14970), None, None, Some(30)) }

TriggerPrices == {15010}

\* (lot_size, trigger_price) arguments of update_pending_order
UpdateInputs == {<<Some(20), Some(15045)>>}

\* rows that are or can still become an order
Booked(db) ==
    Len(db.orders) + Cardinality({i \in DOMAIN db.pendings : db.pendings[i].status # "executed"})

\* ids a caller can name, 0 for a row that does not exist; rankings of the rows
Longest(db) == IF Len(db.positions) > Len(db.pendings) THEN Len(db.positions) ELSE Len(db.pendings)
RowIds(db) == 0..Longest(db)
RowOrders(db) == Rankings(Longest(db))

-----------------------------------------------------------------------------
(* The service calls as steps of the system *)

\* db.commit(): the tables become what the session holds
Commit(db) ==
    /\ sims' = db.sims
    /\ accounts' = db.accounts
    /\ orders' = db.orders
    /\ positions' = db.positions
    /\ trades' = db.trades
    /\ pendings' = db.pendings

\* the tables become what the call left behind
Do(c) == Commit(c.db) /\ UNCHANGED <<candles, query, advance>>

\* a call that books a row is taken only while fewer than MaxOrders are booked
InBounds(c) == Booked(c.db) > Booked(DB) => Booked(DB) < MaxOrders

Start == \E st \in StartTimes, b \in InitialBalances : Do(start(DB, st, b))
Pause == Do(pause(DB))
Resume == Do(resume(DB))
Stop == \E order \in RowOrders(DB) : Do(stop(DB, order))
\* stop, where close_position may raise for any of the open positions
StopRaising ==
    \E order \in RowOrders(DB),
       raising \in SUBSET OpenPositionsOf(DB, get_active_simulation(DB)) :
       Do(stop_raising(DB, order, raising))
AdvanceTime == \E t \in NewTimes, order \in RowOrders(DB) : Do(advance_time(DB, t, order))
CreateOrder ==
    \E side \in Sides, lot \in LotSizes, lv \in LevelInputs :
       LET c == create_order(DB, side, lot, lv) IN InBounds(c) /\ Do(c)
ClosePosition == \E id \in RowIds(DB) : Do(close_position(DB, id))
SetSLTP == \E id \in RowIds(DB), lv \in LevelInputs : Do(set_sltp(DB, id, lv))
CreatePendingOrder ==
    \E ty \in OrderTypes, side \in Sides, lot \in LotSizes, tr \in TriggerPrices :
       LET c == create_pending_order(DB, ty, side, lot, tr) IN InBounds(c) /\ Do(c)
UpdatePendingOrder ==
    \E id \in RowIds(DB), u \in UpdateInputs : Do(update_pending_order(DB, id, u[1], u[2]))
CancelPendingOrder == \E id \in RowIds(DB) : Do(cancel_pending_order(DB, id))

-----------------------------------------------------------------------------
(* advance_time step by step: what its session holds and what is committed *)

\* check_pending_orders_execution commits its session unless it returned early
\* (lines 904-910, 966)
PendingCommits(db, simulation_id, current_time) ==
    /\ \E i \in DOMAIN db.pendings : /\ db.pendings[i].simulation_id = simulation_id
                                     /\ db.pendings[i].status = "pending"
    /\ IsSome(get_candle_at_time("M10", current_time))

\* check_sltp_triggers commits when a position triggered or conflicted
\* (lines 1161-1162)
SLTPCommits(sltp_result) == sltp_result.triggered # {} \/ sltp_result.conflicts # {}

\* the rows a loop had worked through when it raised: any prefix
Prefixes(order) == {SubSeq(order, 1, k) : k \in 0..Len(order)}

\* lines 366-404: the checks, the settled time, and the assignment of
\* current_time in the session; nothing is committed.  A call that fails a
\* check returns its error.
AdvanceBegin ==
    \E t \in NewTimes, order \in RowOrders(DB) :
       LET simulation == get_active_simulation(DB)
           settled == SettledTime(t)
           rejected == advance_time(DB, t, order).ret
       IN  /\ advance.pc \in {"idle", "returned"}
           /\ simulation # 0
           /\ advance' =
                 IF rejected.error # Ok
                 THEN [pc |-> "returned", simulation |-> simulation, new_time |-> t,
                       before |-> sims[simulation].current_time, raised |-> {},
                       ret |-> rejected]
                 ELSE [pc |-> "pending", simulation |-> simulation,
                       new_time |-> Val(settled), order |-> order,
                       session |-> [DB EXCEPT !.sims[simulation].current_time = Val(settled)],
                       sltp_result |-> [triggered |-> {}, conflicts |-> {}],
                       before |-> sims[simulation].current_time, raised |-> {}]
           /\ UNCHANGED <<candles, sims, accounts, orders, positions, trades, pendings, query>>

\* lines 406-409: the pending orders are evaluated in the session
AdvancePending ==
    /\ advance.pc = "pending"
    /\ LET after == check_pending_orders_execution(advance.session, advance.simulation,
                                                   advance.new_time, advance.order)
       IN  /\ advance' = [advance EXCEPT !.pc = "sltp", !.session = after]
           /\ IF PendingCommits(advance.session, advance.simulation, advance.new_time)
              THEN Commit(after)
              ELSE UNCHANGED <<sims, accounts, orders, positions, trades, pendings>>
    /\ UNCHANGED <<candles, query>>

\* an exception of the pending-order evaluation ends the call: the session is
\* rolled back and the error returned
AdvancePendingRaises_aborts ==
    /\ advance.pc = "pending"
    /\ advance' = [pc |-> "returned", simulation |-> advance.simulation,
                   new_time |-> advance.new_time,
                   before |-> advance.before, raised |-> {"pending"},
                   ret |-> [error |-> "exception"]]
    /\ UNCHANGED <<candles, sims, accounts, orders, positions, trades, pendings, query>>

\* lines 410-412: the evaluation raised part way; what it did stays in the
\* session, its commit was not reached, and the advance goes on
AdvancePendingRaises ==
    /\ advance.pc = "pending"
    /\ \E done \in Prefixes(advance.order) :
          advance' = [advance EXCEPT
                         !.pc = "sltp",
                         !.session = check_pending_orders_execution(
                                        advance.session, advance.simulation,
                                        advance.new_time, done),
                         !.raised = @ \cup {"pending"}]
    /\ UNCHANGED <<candles, sims, accounts, orders, positions, trades, pendings, query>>

\* lines 414-417: SL and TP are evaluated in the session
AdvanceSLTP ==
    /\ advance.pc = "sltp"
    /\ LET R == check_sltp_triggers(advance.session, advance.simulation,
                                    advance.new_time, advance.order)
           sltp_result == [triggered |-> R.triggered, conflicts |-> R.conflicts]
       IN  /\ advance' = [advance EXCEPT !.pc = "commit", !.session = R.db,
                                         !.sltp_result = sltp_result]
           /\ IF SLTPCommits(sltp_result)
              THEN Commit(R.db)
              ELSE UNCHANGED <<sims, accounts, orders, positions, trades, pendings>>
    /\ UNCHANGED <<candles, query>>

\* lines 418-420: the evaluation raised part way; sltp_result keeps its
\* default and the advance goes on
AdvanceSLTPRaises ==
    /\ advance.pc = "sltp"
    /\ \E done \in Prefixes(advance.order) :
          advance' = [advance EXCEPT
                         !.pc = "commit",
                         !.session = check_sltp_triggers(advance.session, advance.simulation,
                                                         advance.new_time, done).db,
                         !.raised = @ \cup {"sltp"}]
    /\ UNCHANGED <<candles, sims, accounts, orders, positions, trades, pendings, query>>

\* lines 422-430: the session is committed and the result returned
AdvanceCommit ==
    /\ advance.pc = "commit"
    /\ Commit(advance.session)
    /\ advance' = [pc |-> "returned", simulation |-> advance.simulation,
                   new_time |-> advance.new_time,
                   before |-> advance.before, raised |-> advance.raised,
                   ret |-> [error |-> Ok,
                            current_time |-> advance.session.sims[advance.simulation].current_time,
                            sltp_triggered |-> advance.sltp_result.triggered,
                            sltp_conflicts |-> advance.sltp_result.conflicts]]
    /\ UNCHANGED <<candles, query>>

-----------------------------------------------------------------------------
(* Specifications *)

NoQuery == [timeframe |-> "M10", current_time |-> 0, limit |-> 0,
            candles |-> <<>>, data_missing |-> FALSE]

\* no advance_time call has been made
NoAdvance == [pc |-> "idle"]

EmptyTables ==
    /\ sims = <<>>
    /\ accounts = <<>>
    /\ orders = <<>>
    /\ positions = <<>>
    /\ trades = <<>>
    /\ pendings = <<>>
    /\ query = NoQuery
    /\ advance = NoAdvance

\* the ledger of one simulation run
Init == candles = LedgerStore /\ EmptyTables

Next ==
    \/ (sims = <<>> /\ Start)
    \/ Pause
    \/ Resume
    \/ Stop
    \/ AdvanceTime
    \/ CreateOrder
    \/ ClosePosition
    \/ SetSLTP
    \/ CreatePendingOrder
    \/ UpdatePendingOrder
    \/ CancelPendingOrder

Spec == Init /\ [][Next]_vars

\* the lifecycle of successive simulations
NextLifecycle ==
    \/ (Len(sims) < MaxSims /\ Start)
    \/ Pause
    \/ Resume
    \/ Stop
    \/ AdvanceTime

InitLifecycle == candles = WeekendStore /\ EmptyTables

SpecLifecycle == InitLifecycle /\ [][NextLifecycle]_vars

\* the candle queries alone, over the stored data
InitCandles == candles = CandleStore /\ EmptyTables

NextCandles == GetCandles

SpecCandles == InitCandles /\ [][NextCandles]_vars

\* Tables with holes in the stored hourly series: no H1 rows at all, the H1
\* row of Friday 22:00 alone, and the H1 row of Friday 23:00 alone, over the
\* same 10-minute, daily and weekly rows.
GapStores ==
    { CandleStore,
      CandleStore \ H1Rows,
      (CandleStore \ H1Rows) \cup { Bar("H1", At(0, 4, 22, 0), 14980, 15020, 14970, 15000, 300) },
      (CandleStore \ H1Rows) \cup { Bar("H1", At(0, 4, 23, 0), 15000, 15050, 14960, 14970, 330) } }

InitGaps == candles \in GapStores /\ EmptyTables

\* GET /candles
GetCandlesBetween ==
    \E timeframe \in Timeframes, start_time \in {None, Some(Fri2330 + 10)},
       end_time \in {None} \cup {Some(t) : t \in AsOfTimes}, limit \in 1..MaxLimit :
       /\ query' = [timeframe |-> timeframe,
                    current_time |-> IF IsSome(end_time) THEN Val(end_time) ELSE 0,
                    limit |-> limit,
                    candles |-> get_candles(timeframe, start_time, end_time, limit),
                    data_missing |-> FALSE]
       /\ UNCHANGED <<candles, sims, accounts, orders, positions, trades, pendings, advance>>

\* GET /candles/before
GetCandlesBefore ==
    \E timeframe \in Timeframes, before_time \in AsOfTimes, limit \in 1..MaxLimit :
       /\ query' = [timeframe |-> timeframe, current_time |-> before_time, limit |-> limit,
                    candles |-> get_candles_before(timeframe, before_time, limit),
                    data_missing |-> FALSE]
       /\ UNCHANGED <<candles, sims, accounts, orders, positions, trades, pendings, advance>>

NextGaps ==
    \/ GetCandles
    \/ GetCandlesBetween
    \/ GetCandlesBefore

SpecGaps == InitGaps /\ [][NextGaps]_vars

\* The calendar functions applied to times of every day of one week, and to a
\* timeframe the service does not know.
CalendarTimes ==
    {At(1, d, h, m) : d \in 0..6, h \in {0, 6, 7, 23}, m \in {0, 9, 30, 59}}

CalendarTimeframes == Timeframes \cup {"M5"}

CalculateCandleStartTime ==
    \E timeframe \in CalendarTimeframes, current_time \in CalendarTimes :
       /\ query' = [timeframe |-> timeframe, current_time |-> current_time, limit |-> 0,
                    candles |-> <<>>, data_missing |-> FALSE,
                    candle_start |-> calculate_candle_start_time(timeframe, current_time)]
       /\ UNCHANGED <<candles, sims, accounts, orders, positions, trades, pendings, advance>>

IsMarketOpen ==
    \E current_time \in CalendarTimes :
       /\ query' = [timeframe |-> "M10", current_time |-> current_time, limit |-> 0,
                    candles |-> <<>>, data_missing |-> FALSE,
                    market_open |-> is_market_open(current_time)]
       /\ UNCHANGED <<candles, sims, accounts, orders, positions, trades, pendings, advance>>

InitCalendar == candles = CandleStore /\ EmptyTables

NextCalendar ==
    \/ CalculateCandleStartTime
    \/ IsMarketOpen

SpecCalendar == InitCalendar /\ [][NextCalendar]_vars

\* One clock advance over one bar: a running simulation holding one position
\* with arbitrary levels (set_sltp does not look at their side of the entry
\* price) and one pending order, and the bar the clock advances onto.
TriggerHighs == {15000, 15010, 15030}
TriggerLows == {15000, 14990, 14970}
TriggerLevels == {None, Some(14990), Some(15010)}
TriggerInputs == {14990, 15010}

\* a flat bar at the entry price, then the bar the clock advances onto
TriggerStore(high, low) ==
    { Bar("M10", Fri2330,      15000, 15000, 15000, 15000, 10),
      Bar("M10", Fri2330 + 10, 15000, high, low, 15000, 10) }

InitTriggers ==
    \E high \in TriggerHighs, low \in TriggerLows, side \in Sides,
       sl \in TriggerLevels, tp \in TriggerLevels,
       ty \in OrderTypes, pside \in Sides, tr \in TriggerInputs :
       LET db0 == [sims |-> <<>>, accounts |-> <<>>, orders |-> <<>>,
                   positions |-> <<>>, trades |-> <<>>, pendings |-> <<>>]
           db1 == resume(start(db0, Fri2330, 10000000).db).db
           db2 == create_order(db1, side, 10, NoLevels).db
           db3 == set_sltp(db2, 1, Levels(sl, tp, None, None)).db
           db4 == create_pending_order(db3, ty, pside, 10, tr).db
       IN  /\ candles = TriggerStore(high, low)
           /\ sims = db4.sims
           /\ accounts = db4.accounts
           /\ orders = db4.orders
           /\ positions = db4.positions
           /\ trades = db4.trades
           /\ pendings = db4.pendings
           /\ query = NoQuery
           /\ advance = NoAdvance

NextTriggers == AdvanceTime

SpecTriggers == InitTriggers /\ [][NextTriggers]_vars

\* The clock alone, over data with gaps: the weekend of M10Rows, a weekend
\* without rows, or a Friday bar followed by more closed-hours rows than the
\* search of _find_next_available_data reads, before the Monday open.
ClosedRows ==
    { Bar("M10", Fri2330 + 20, 15040, 15050, 14960, 14970, 30),
      Bar("M10", Mon0700,      14970, 15000, 14950, 14960, 10) }
    \cup { Bar("M10", At(0, 6, 0, 0) + k * PeriodMinutes("M10"), 14970, 14970, 14970, 14970, 1) :
              k \in 0..FindLimit }

\* a weekend without rows: the Friday close, then the Monday open
QuietRows ==
    { Bar("M10", Fri2330 + 10, 15000, 15040, 15000, 15040, 20),
      Bar("M10", Fri2330 + 20, 15040, 15050, 14960, 14970, 30),
      Bar("M10", Mon0700,      14970, 15000, 14950, 14960, 10),
      Bar("M10", Mon0700 + 10, 14960, 15000, 14960, 15000, 20) }

ClockStores == { {r \in CandleStore : r.timeframe = "M10"}, ClosedRows, QuietRows }

\* new_time arguments: the Friday bars, one and two steps after the last of
\* them, inside the weekend, the Monday open, the missing 07:20 bar, and one
\* and two steps after the last bar
ClockTimes ==
    { Fri2330 + 10, Fri2330 + 20, Fri2330 + 30, Fri2330 + 40, At(0, 5, 8, 0),
      Mon0700, Mon0700 + 20, Mon0700 + 40, Mon0700 + 50 }

AdvanceClock == \E t \in ClockTimes : Do(advance_time(DB, t, <<>>))

InitClock == candles \in ClockStores /\ EmptyTables

NextClock ==
    \/ (Len(sims) < MaxSims /\ Start)
    \/ Pause
    \/ Resume
    \/ AdvanceClock

SpecClock == InitClock /\ [][NextClock]_vars

\* Clock advances step by step, from states of InitTriggers: what the session
\* of advance_time holds and what it has committed at each position.
NextAdvance ==
    \/ AdvanceBegin
    \/ AdvancePending
    \/ AdvancePendingRaises
    \/ AdvanceSLTP
    \/ AdvanceSLTPRaises
    \/ AdvanceCommit

\* the bar the clock advances onto is flat or reaches every level
InitAdvance ==
    /\ InitTriggers
    /\ candles \in {TriggerStore(15000, 15000), TriggerStore(15030, 14970)}

SpecAdvance == InitAdvance /\ [][NextAdvance]_vars

\* A simulation that holds two positions and a pending order is advanced,
\* paused, stopped, or superseded by the start of the next simulation.
InitHandover ==
    \E side1 \in Sides, side2 \in Sides, ty \in OrderTypes :
       LET db0 == [sims |-> <<>>, accounts |-> <<>>, orders |-> <<>>,
                   positions |-> <<>>, trades |-> <<>>, pendings |-> <<>>]
           db1 == resume(start(db0, Fri2330, 20000000).db).db
           db2 == create_order(db1, side1, 10, NoLevels).db
           db3 == create_order(db2, side2, 10, NoLevels).db
           db4 == create_pending_order(db3, ty, "buy", 10, 15010).db
       IN  /\ candles = LedgerStore
           /\ sims = db4.sims
           /\ accounts = db4.accounts
           /\ orders = db4.orders
           /\ positions = db4.positions
           /\ trades = db4.trades
           /\ pendings = db4.pendings
           /\ query = NoQuery
           /\ advance = NoAdvance

NextHandover ==
    \/ (Len(sims) < MaxSims /\ Start)
    \/ Pause
    \/ Resume
    \/ StopRaising
    \/ AdvanceTime
    \/ ClosePosition

SpecHandover == InitHandover /\ [][NextHandover]_vars

\* A running simulation holding four positions opened at the Friday 23:30
\* close, the last two a sell and a buy, the first one with or without an SL
\* level: each is closed by hand, by its SL on the advance, or by stop, in any
\* order and at either bar.
InitStreak ==
    \E side1 \in Sides, side2 \in Sides, sl \in {None, Some(14970)} :
       LET db0 == [sims |-> <<>>, accounts |-> <<>>, orders |-> <<>>,
                   positions |-> <<>>, trades |-> <<>>, pendings |-> <<>>]
           db1 == resume(start(db0, Fri2330, 30000000).db).db
           db2 == create_order(db1, side1, 10, Levels(sl, None, None, None)).db
           db3 == create_order(db2, side2, 10, NoLevels).db
           db4 == create_order(db3, "sell", 10, NoLevels).db
           db5 == create_order(db4, "buy", 10, NoLevels).db
       IN  /\ candles = LedgerStore
           /\ sims = db5.sims
           /\ accounts = db5.accounts
           /\ orders = db5.orders
           /\ positions = db5.positions
           /\ trades = db5.trades
           /\ pendings = db5.pendings
           /\ query = NoQuery
           /\ advance = NoAdvance

NextStreak ==
    \/ AdvanceTime
    \/ ClosePosition
    \/ Stop

SpecStreak == InitStreak /\ [][NextStreak]_vars

GetAccountInfo == Do(get_account_info(DB))

\* A running simulation holding three positions opened at the Friday 23:30
\* close, the last one a sell of twice the size: the account is read between
\* advances, closes and stop.
InitAccount ==
    \E side1 \in Sides, side2 \in Sides :
       LET db0 == [sims |-> <<>>, accounts |-> <<>>, orders |-> <<>>,
                   positions |-> <<>>, trades |-> <<>>, pendings |-> <<>>]
           db1 == resume(start(db0, Fri2330, 30000000).db).db
           db2 == create_order(db1, side1, 10, NoLevels).db
           db3 == create_order(db2, side2, 10, NoLevels).db
           db4 == create_order(db3, "sell", 20, NoLevels).db
       IN  /\ candles = LedgerStore
           /\ sims = db4.sims
           /\ accounts = db4.accounts
           /\ orders = db4.orders
           /\ positions = db4.positions
           /\ trades = db4.trades
           /\ pendings = db4.pendings
           /\ query = NoQuery
           /\ advance = NoAdvance

NextAccount ==
    \/ AdvanceTime
    \/ ClosePosition
    \/ StopRaising
    \/ GetAccountInfo

SpecAccount == InitAccount /\ [][NextAccount]_vars

\* Levels given to create_order and set_sltp for a position entered at a
\* price of two or of five decimals: prices of two and of five decimals, pips
\* of no and of three decimals, none, and both.
EntryPoints == {15030000, 15030512}
PriceArgs == {14970000, 14970053, 15060005}
PipArgs == {-20000, 30000, 12345}

LevelArgs ==
    {[price |-> price, pips |-> pips] :
        price \in {None} \cup {Some(p) : p \in PriceArgs},
        pips \in {None} \cup {Some(p) : p \in PipArgs}}

StoredLevels(op, error, side, entry, sl, tp) ==
    [timeframe |-> "M10", current_time |-> 0, limit |-> 0, candles |-> <<>>,
     data_missing |-> FALSE,
     op |-> op, error |-> error, side |-> side, entry_price |-> entry,
     sl_price |-> sl[1], sl_pips |-> sl[2], tp_price |-> tp[1], tp_pips |-> tp[2]]

\* create_order, lines 264-296: the levels of the new position
CreateOrderLevels ==
    \E side \in Sides, entry \in EntryPoints, sl_arg \in LevelArgs, tp_arg \in LevelArgs :
       \E sl \in StoredLevel(side, entry, sl_arg.price, sl_arg.pips),
          tp \in StoredLevel(side, entry, tp_arg.price, tp_arg.pips) :
          /\ query' = StoredLevels("create_order", Ok, side, entry, sl, tp)
          /\ UNCHANGED <<candles, sims, accounts, orders, positions, trades, pendings, advance>>

\* set_sltp, lines 1005-1055, on a position without levels
SetSLTPLevels ==
    \E side \in Sides, entry \in EntryPoints, sl_arg \in LevelArgs, tp_arg \in LevelArgs :
       \E sl \in StoredLevel(side, entry, sl_arg.price, sl_arg.pips),
          tp \in StoredLevel(side, entry, tp_arg.price, tp_arg.pips) :
          /\ query' =
                IF IsSome(sl_arg.price) /\ IsSome(sl_arg.pips)
                THEN StoredLevels("set_sltp", "Cannot specify both sl_price and sl_pips",
                                  side, entry, <<None, None>>, <<None, None>>)
                ELSE IF IsSome(tp_arg.price) /\ IsSome(tp_arg.pips)
                THEN StoredLevels("set_sltp", "Cannot specify both tp_price and tp_pips",
                                  side, entry, <<None, None>>, <<None, None>>)
                ELSE StoredLevels("set_sltp", Ok, side, entry, sl, tp)
          /\ UNCHANGED <<candles, sims, accounts, orders, positions, trades, pendings, advance>>

InitLevels == candles = LedgerStore /\ EmptyTables

NextLevels ==
    \/ CreateOrderLevels
    \/ SetSLTPLevels

SpecLevels == InitLevels /\ [][NextLevels]_vars

\* Requests to the order and the SL/TP routes, with every way of giving a
\* level: none, a price, pips, and both.
RequestLevels ==
    { NoLevels,
      Levels(Some(14970), None, None, None),
      Levels(None, None, None, Some(30)),
      Levels(Some(14970), None, None, Some(30)),
      Levels(Some(14970), None, Some(40), None),
      Levels(None, Some(15060), None, Some(30)) }

CreateOrderRequest ==
    \E side \in Sides, lot \in LotSizes, lv \in RequestLevels :
       LET c == create_order_route(DB, side, lot, lv) IN InBounds(c) /\ Do(c)
SetSLTPRequest == \E id \in RowIds(DB), lv \in RequestLevels : Do(set_sltp_route(DB, id, lv))

InitRequests ==
    LET db0 == [sims |-> <<>>, accounts |-> <<>>, orders |-> <<>>,
                positions |-> <<>>, trades |-> <<>>, pendings |-> <<>>]
        db1 == resume(start(db0, Fri2330, 20000000).db).db
    IN  /\ candles = LedgerStore
        /\ sims = db1.sims
        /\ accounts = db1.accounts
        /\ orders = db1.orders
        /\ positions = db1.positions
        /\ trades = db1.trades
        /\ pendings = db1.pendings
        /\ query = NoQuery
        /\ advance = NoAdvance

NextRequests ==
    \/ CreateOrderRequest
    \/ SetSLTPRequest
    \/ ClosePosition
    \/ AdvanceTime

SpecRequests == InitRequests /\ [][NextRequests]_vars

\* Concurrent requests.  Every route is an "async def" that calls the service
\* without awaiting anything, so the server's event loop runs one handler from
\* its first query to its last commit before it takes up the next request.
\* A handler is none (no request), waiting (received, not yet run) or running
\* (its session has read the tables and not yet committed).
Clients == {"a", "b"}

NoHandler == [pc |-> "none"]

\* the requests the clients send
LedgerRequests(db) ==
    {[kind |-> "create_order", side |-> side, lot_size |-> lot, levels |-> lv] :
        side \in Sides, lot \in LotSizes, lv \in LevelInputs}
    \cup {[kind |-> "close_position", position_id |-> id] : id \in RowIds(db)}
    \cup {[kind |-> "advance_time", new_time |-> t, order |-> order] :
            t \in {Fri2330 + 10}, order \in RowOrders(db)}
    \cup {[kind |-> "stop", order |-> order] : order \in RowOrders(db)}

\* the service call of a request, on the tables its session sees
Handle(req, db) ==
    CASE req.kind = "create_order" -> create_order_route(db, req.side, req.lot_size, req.levels)
      [] req.kind = "close_position" -> close_position(db, req.position_id)
      [] req.kind = "advance_time" -> advance_time(db, req.new_time, req.order)
      [] req.kind = "stop" -> stop(db, req.order)

\* handlers run in threads of their own
LoopFree_threads(handlers) == TRUE

\* the event loop is free to run a handler: no handler is between its first
\* query and its return
LoopFree(handlers) == \A h \in DOMAIN handlers : handlers[h].pc # "running"

\* what a commit writes to a table: the columns the session changed in the
\* rows it had loaded, and the rows it added
FlushTable(stored, loaded, session) ==
    [i \in 1..Len(stored) |->
        IF i <= Len(loaded) /\ session[i] # loaded[i]
        THEN [f \in DOMAIN stored[i] |->
                 IF session[i][f] # loaded[i][f] THEN session[i][f] ELSE stored[i][f]]
        ELSE stored[i]]
    \o SubSeq(session, Len(loaded) + 1, Len(session))

Flush(stored, loaded, session) ==
    [t \in DOMAIN stored |-> FlushTable(stored[t], loaded[t], session[t])]

\* a request arrives
Receive ==
    \E h \in Clients, req \in LedgerRequests(DB) :
       /\ advance[h].pc = "none"
       /\ req.kind = "create_order" => Booked(DB) < MaxOrders
       /\ advance' = [advance EXCEPT ![h] = [pc |-> "waiting", request |-> req]]
       /\ UNCHANGED <<candles, sims, accounts, orders, positions, trades, pendings, query>>

\* the event loop calls the handler, whose session loads the rows
Begin ==
    \E h \in Clients :
       /\ advance[h].pc = "waiting"
       /\ LoopFree(advance)
       /\ advance[h].request.kind = "create_order" => Booked(DB) < MaxOrders
       /\ advance' = [advance EXCEPT ![h] = [pc |-> "running", request |-> @.request,
                                              loaded |-> DB]]
       /\ UNCHANGED <<candles, sims, accounts, orders, positions, trades, pendings, query>>

\* the handler commits and returns
Finish ==
    \E h \in Clients :
       /\ advance[h].pc = "running"
       /\ Commit(Flush(DB, advance[h].loaded, Handle(advance[h].request, advance[h].loaded).db))
       /\ advance' = [advance EXCEPT ![h] = NoHandler]
       /\ UNCHANGED <<candles, query>>

InitLoop ==
    LET db0 == [sims |-> <<>>, accounts |-> <<>>, orders |-> <<>>,
                positions |-> <<>>, trades |-> <<>>, pendings |-> <<>>]
        db1 == resume(start(db0, Fri2330, 20000000).db).db
    IN  /\ candles = LedgerStore
        /\ sims = db1.sims
        /\ accounts = db1.accounts
        /\ orders = db1.orders
        /\ positions = db1.positions
        /\ trades = db1.trades
        /\ pendings = db1.pendings
        /\ query = NoQuery
        /\ advance = [h \in Clients |-> NoHandler]

NextLoop ==
    \/ Receive
    \/ Begin
    \/ Finish

SpecLoop == InitLoop /\ [][NextLoop]_vars

\* Two positions entered at one price leave at another, by hand at the
\* current price or through a level set at that price.
ExitPairs == {<<15000, 15100>>, <<15000, 14980>>, <<15030, 15060>>}
ExitLots == {10, 100}

\* a flat bar at the entry price, then the bar that closes at the exit price
ExitStore(entry, exit) ==
    { Bar("M10", Fri2330,      entry, entry, entry, entry, 10),
      Bar("M10", Fri2330 + 10, entry, IF exit > entry THEN exit ELSE entry,
                                      IF exit > entry THEN entry ELSE exit, exit, 10) }

\* the level of a position at the exit price: its TP when the exit is a
\* profit, its SL when it is a loss
ExitLevel(side, entry, exit) ==
    IF (side = "buy") = (exit > entry)
    THEN Levels(None, Some(exit), None, None)
    ELSE Levels(Some(exit), None, None, None)

InitExit ==
    \E pair \in ExitPairs, side1 \in Sides, side2 \in Sides, lot \in ExitLots,
       level1 \in BOOLEAN, level2 \in BOOLEAN :
       LET db0 == [sims |-> <<>>, accounts |-> <<>>, orders |-> <<>>,
                   positions |-> <<>>, trades |-> <<>>, pendings |-> <<>>]
           db1 == resume(start(db0, Fri2330, 200000000).db).db
           db2 == create_order(db1, side1, lot, NoLevels).db
           db3 == create_order(db2, side2, lot, NoLevels).db
           db4 == IF level1 THEN set_sltp(db3, 1, ExitLevel(side1, pair[1], pair[2])).db ELSE db3
           db5 == IF level2 THEN set_sltp(db4, 2, ExitLevel(side2, pair[1], pair[2])).db ELSE db4
       IN  /\ candles = ExitStore(pair[1], pair[2])
           /\ sims = db5.sims
           /\ accounts = db5.accounts
           /\ orders = db5.orders
           /\ positions = db5.positions
           /\ trades = db5.trades
           /\ pendings = db5.pendings
           /\ query = NoQuery
           /\ advance = NoAdvance

NextExit ==
    \/ AdvanceTime
    \/ ClosePosition
    \/ GetAccountInfo

SpecExit == InitExit /\ [][NextExit]_vars

\* Later simulations next to a stopped one that keeps its ledger: a position
\* its stop could not close, a closed position with its trade, and a
\* cancelled pending order.
BookedIn(db, sim) ==
    Cardinality({i \in DOMAIN db.orders : db.orders[i].simulation_id = sim})
       + Cardinality({i \in DOMAIN db.pendings : /\ db.pendings[i].simulation_id = sim
                                                 /\ db.pendings[i].status # "executed"})

\* a call books a row only while the simulations after the first have fewer
\* than MaxOrders between them
InBoundsOf(c) ==
    Booked(c.db) > Booked(DB) => Booked(DB) - BookedIn(DB, 1) < MaxOrders

\* the calls of the later simulations, with one input for each kind of row
AdvanceTimeNext ==
    \E order \in RowOrders(DB) : Do(advance_time(DB, Fri2330 + 10, order))
CreateOrderNext ==
    \E lv \in LevelInputs :
       LET c == create_order(DB, "buy", 10, lv) IN InBoundsOf(c) /\ Do(c)
CreatePendingOrderNext ==
    \E ty \in OrderTypes :
       LET c == create_pending_order(DB, ty, "buy", 10, 15010) IN InBoundsOf(c) /\ Do(c)

InitFrozen ==
    \E side1 \in Sides :
       LET db0 == [sims |-> <<>>, accounts |-> <<>>, orders |-> <<>>,
                   positions |-> <<>>, trades |-> <<>>, pendings |-> <<>>]
           db1 == resume(start(db0, Fri2330, 20000000).db).db
           db2 == create_order(db1, side1, 10, Levels(Some(14970), Some(15060), None, None)).db
           db3 == create_order(db2, "sell", 10, NoLevels).db
           db4 == create_pending_order(db3, "limit", "buy", 10, 15010).db
           db5 == advance_time(db4, Fri2330, <<1, 2>>).db
           db6 == close_position(db5, 2).db
           db7 == stop_raising(db6, <<1, 2>>, {1}).db
       IN  /\ candles = LedgerStore
           /\ sims = db7.sims
           /\ accounts = db7.accounts
           /\ orders = db7.orders
           /\ positions = db7.positions
           /\ trades = db7.trades
           /\ pendings = db7.pendings
           /\ query = NoQuery
           /\ advance = NoAdvance

NextFrozen ==
    \/ (Len(sims) < MaxSims /\ Start)
    \/ Pause
    \/ Resume
    \/ Stop
    \/ AdvanceTimeNext
    \/ CreateOrderNext
    \/ ClosePosition
    \/ SetSLTP
    \/ CreatePendingOrderNext
    \/ UpdatePendingOrder
    \/ CancelPendingOrder

SpecFrozen == InitFrozen /\ [][NextFrozen]_vars

-----------------------------------------------------------------------------
(* Properties: the ledger *)



RECURSIVE SumPnl(_, _)
SumPnl(ts, I) ==
    IF I = {} THEN 0
    ELSE LET i == CHOOSE x \in I : TRUE IN ts[i].realized_pnl + SumPnl(ts, I \ {i})

TradesOf(sim) == {i \in DOMAIN trades : trades[i].simulation_id = sim}

-----------------------------------------------------------------------------
(* Properties: the candle series *)

\* the last minute a stored row has data of: a 10-minute bar stamped t is what
\* the simulation sees at time t, so a row of period p stamped t is complete
\* once the 10-minute bar stamped t + p - 10 is
LastSubBar(row) == row[2] + PeriodMinutes(row[1]) - 10

\* C2: no bar of the series get_candles_with_partial_last returns is derived
\* from a stored row whose period extends past the asOf time of the query.
C2_NoLookAhead ==
    \A i \in DOMAIN query.candles :
       \A row \in query.candles[i].src : LastSubBar(row) <= query.current_time

-----------------------------------------------------------------------------
(* Properties: the lifecycle *)

Active(db) == {i \in DOMAIN db.sims : db.sims[i].status \in ActiveStatuses}

\* the status changes a call made, as (before, after) pairs
Changes(db, after) ==
    {<<db.sims[i].status, after.sims[i].status>> :
        i \in {j \in DOMAIN db.sims : after.sims[j].status # db.sims[j].status}}

Superseded == {<<"created", "stopped">>, <<"running", "stopped">>, <<"paused", "stopped">>}

\* C3: resume moves created or paused to running, pause moves running to
\* paused, stop and start move the active simulation to stopped, and no call
\* changes a status in any other way (a stopped simulation stays stopped);
\* pause on a created or paused simulation and resume on a running one return
\* an error and leave every table as it was.
C3_StatusTransitions ==
    LET a == get_active_simulation(DB)
    IN  /\ Changes(DB, pause(DB).db) \subseteq {<<"running", "paused">>}
        /\ Changes(DB, resume(DB).db) \subseteq {<<"created", "running">>, <<"paused", "running">>}
        /\ \A order \in RowOrders(DB) : Changes(DB, stop(DB, order).db) \subseteq Superseded
        /\ \A st \in StartTimes, b \in InitialBalances :
              Changes(DB, start(DB, st, b).db) \subseteq Superseded
        /\ \A t \in NewTimes, order \in RowOrders(DB) :
              Changes(DB, advance_time(DB, t, order).db) = {}
        /\ (a # 0 /\ sims[a].status \in {"created", "paused"}) =>
              (pause(DB).ret.error # Ok /\ pause(DB).db = DB)
        /\ (a # 0 /\ sims[a].status = "running") =>
              (resume(DB).ret.error # Ok /\ resume(DB).db = DB)
        /\ (a # 0 /\ sims[a].status = "running") =>
              (pause(DB).ret.error = Ok /\ pause(DB).db.sims[a].status = "paused")
        /\ (a # 0 /\ sims[a].status \in {"created", "paused"}) =>
              (resume(DB).ret.error = Ok /\ resume(DB).db.sims[a].status = "running")
        /\ a # 0 => \A order \in RowOrders(DB) : stop(DB, order).db.sims[a].status = "stopped"

\* a simulation that was started, resumed and paused, after another was stopped
C3_Witness ==
    \E i, j \in DOMAIN sims : sims[i].status = "stopped" /\ sims[j].status = "paused"

\* C4: at most one simulation is created, running or paused, and start leaves
\* the simulation that was active stopped and the new one the only active one.
C4_SingleActive ==
    /\ Cardinality(Active(DB)) <= 1
    /\ \A st \in StartTimes, b \in InitialBalances :
          LET c == start(DB, st, b)
          IN  /\ \A i \in Active(DB) : c.db.sims[i].status = "stopped"
              /\ Active(c.db) = {Len(sims) + 1}

\* a second simulation started while the first was running
C4_Witness ==
    /\ Len(sims) >= 2
    /\ sims[1].status = "stopped"
    /\ sims[1].current_time # sims[1].start_time
    /\ sims[2].status \in ActiveStatuses

-----------------------------------------------------------------------------
(* Properties: the clock *)

\* C5: no step lowers the current_time of a simulation.
C5_TimeNeverDecreases ==
    [][\A i \in DOMAIN sims : sims'[i].current_time >= sims[i].current_time]_vars

-----------------------------------------------------------------------------
(* Properties: orders *)

\* the margin of a price and a lot size as the specification states it:
\* price x lot size x 100000 / 25, in the units of the model
MarginOf(price, lot_size) == (price * lot_size * (100000 \div LotScale)) \div 25

RECURSIVE UsedMargin(_)
UsedMargin(I) ==
    IF I = {} THEN 0
    ELSE LET i == CHOOSE x \in I : TRUE
         IN  MarginOf(positions[i].entry_price, positions[i].lot_size) + UsedMargin(I \ {i})

OpenOf(sim) ==
    {i \in DOMAIN positions : positions[i].simulation_id = sim /\ positions[i].status = "open"}

\* the simulation accepts orders and its market has a price
Tradable(sim) ==
    /\ sim # 0
    /\ sims[sim].status \in {"running", "paused"}
    /\ IsSome(get_current_price("M10", sims[sim].current_time))

Overdrawn(sim, lot_size) ==
    UsedMargin(OpenOf(sim))
       + MarginOf(Val(get_current_price("M10", sims[sim].current_time)), lot_size)
    > accounts[sim].balance

\* C6: whenever the margin in use plus the margin the order requires exceeds
\* the balance, create_order returns the margin error and leaves every table
\* as it was.
C6_MarginRejection ==
    LET sim == get_active_simulation(DB)
    IN  \A side \in Sides, lot \in LotSizes, lv \in LevelInputs :
           (Tradable(sim) /\ Overdrawn(sim, lot)) =>
              LET c == create_order(DB, side, lot, lv)
              IN  c.ret.error = "Insufficient margin" /\ c.db = DB

\* an open position leaves too little margin for the next order
C6_Witness ==
    LET sim == get_active_simulation(DB)
    IN  /\ Tradable(sim)
        /\ OpenOf(sim) # {}
        /\ \E lot \in LotSizes : Overdrawn(sim, lot)

\* what update_pending_order, cancel_pending_order, advance_time and stop can
\* leave behind
PendingOutcomes ==
    {update_pending_order(DB, id, u[1], u[2]).db : id \in RowIds(DB), u \in UpdateInputs}
    \cup {cancel_pending_order(DB, id).db : id \in RowIds(DB)}
    \cup {advance_time(DB, t, order).db : t \in NewTimes, order \in RowOrders(DB)}
    \cup {stop(DB, order).db : order \in RowOrders(DB)}

\* C7: an executed or cancelled pending order keeps its status under update,
\* cancel, advance_time and stop; update and cancel of such an order return an
\* error and change nothing; update of a pending order sets lot size and
\* trigger price and leaves it pending.
C7_PendingOneWay ==
    \A i \in DOMAIN pendings :
       IF pendings[i].status # "pending"
       THEN /\ \A d \in PendingOutcomes : d.pendings[i].status = pendings[i].status
            /\ \A u \in UpdateInputs :
                  LET c == update_pending_order(DB, i, u[1], u[2])
                  IN  c.ret.error # Ok /\ c.db = DB
            /\ LET c == cancel_pending_order(DB, i) IN c.ret.error # Ok /\ c.db = DB
       ELSE pendings[i].simulation_id = get_active_simulation(DB) =>
               \A u \in UpdateInputs :
                  LET c == update_pending_order(DB, i, u[1], u[2])
                  IN  /\ c.ret.error = Ok
                      /\ c.db.pendings[i].status = "pending"
                      /\ IsSome(u[1]) => c.db.pendings[i].lot_size = Val(u[1])
                      /\ IsSome(u[2]) => c.db.pendings[i].trigger_price = Val(u[2])

\* an order that was updated and then executed, in a simulation still running
C7_Witness ==
    \E i \in DOMAIN pendings :
       /\ pendings[i].status = "executed"
       /\ pendings[i].lot_size \notin LotSizes
       /\ pendings[i].simulation_id = get_active_simulation(DB)

\* what any call can leave behind
Outcomes ==
    PendingOutcomes
    \cup {start(DB, st, b).db : st \in StartTimes, b \in InitialBalances}
    \cup {pause(DB).db, resume(DB).db}
    \cup {create_order(DB, side, lot, lv).db :
             side \in Sides, lot \in LotSizes, lv \in LevelInputs}
    \cup {close_position(DB, id).db : id \in RowIds(DB)}
    \cup {set_sltp(DB, id, lv).db : id \in RowIds(DB), lv \in LevelInputs}
    \cup {create_pending_order(DB, ty, side, lot, tr).db :
             ty \in OrderTypes, side \in Sides, lot \in LotSizes, tr \in TriggerPrices}

TradesFor(db, pid) == {i \in DOMAIN db.trades : db.trades[i].position_id = pid}

\* C8: a closed position has exactly one trade and an open one none; closing a
\* closed position is an error that changes nothing; no call changes an
\* existing trade or a closed position.
C8_OneTradePerClose ==
    /\ \A pid \in DOMAIN positions :
          Cardinality(TradesFor(DB, pid)) = IF positions[pid].status = "closed" THEN 1 ELSE 0
    /\ \A pid \in DOMAIN positions :
          positions[pid].status = "closed" =>
             LET c == close_position(DB, pid) IN c.ret.error # Ok /\ c.db = DB
    /\ \A d \in Outcomes :
          /\ \A i \in DOMAIN trades : d.trades[i] = trades[i]
          /\ \A pid \in DOMAIN positions :
                positions[pid].status = "closed" => d.positions[pid] = positions[pid]

\* a position closed by its SL level, in a simulation still running
C8_Witness ==
    \E pid \in DOMAIN positions :
       /\ positions[pid].status = "closed"
       /\ sims[positions[pid].simulation_id].status = "running"
       /\ \E i \in TradesFor(DB, pid) : Some(trades[i].exit_price) = positions[pid].sl_price

-----------------------------------------------------------------------------
(* Properties: triggers on a clock advance *)

\* the conditions as the specification states them, on the bar of the new time
SLHolds(position, bar) ==
    /\ IsSome(position.sl_price)
    /\ IF position.side = "buy" THEN bar.low <= Val(position.sl_price)
                                ELSE bar.high >= Val(position.sl_price)

TPHolds(position, bar) ==
    /\ IsSome(position.tp_price)
    /\ IF position.side = "buy" THEN bar.high >= Val(position.tp_price)
                                ELSE bar.low <= Val(position.tp_price)

\* the open positions with a level of the active simulation
Guarded(sim) ==
    {pid \in OpenOf(sim) : IsSome(positions[pid].sl_price) \/ IsSome(positions[pid].tp_price)}

\* the position was closed at the price, with one trade, and reported so
ClosedAt(c, pid, price, reason) ==
    /\ c.db.positions[pid].status = "closed"
    /\ Cardinality(TradesFor(c.db, pid)) = 1
    /\ \A i \in TradesFor(c.db, pid) : c.db.trades[i].exit_price = price
    /\ [position_id |-> pid, trigger_type |-> reason, exit_price |-> price]
          \in c.ret.sltp_triggered
    /\ pid \notin c.ret.sltp_conflicts

Untouched(c, pid) ==
    /\ c.db.positions[pid] = positions[pid]
    /\ TradesFor(c.db, pid) = {}
    /\ \A r \in c.ret.sltp_triggered : r.position_id # pid

\* C9: on every successful advance_time, each open position with a level is
\* closed at its SL price (reason sl) when only the SL condition holds on the
\* bar, at its TP price (reason tp) when only the TP condition holds, reported
\* as a conflict and left open without a trade when both hold, and untouched
\* when neither holds; when no position closes the balance is unchanged.
C9_SLTPEvaluation ==
    LET sim == get_active_simulation(DB)
    IN  \A t \in NewTimes, order \in RowOrders(DB) :
           LET c == advance_time(DB, t, order)
               bar == Val(get_candle_at_time("M10", c.ret.current_time))
           IN  c.ret.error = Ok =>
                  /\ \A pid \in Guarded(sim) :
                        LET position == positions[pid]
                            sl == SLHolds(position, bar)
                            tp == TPHolds(position, bar)
                        IN  /\ (sl /\ ~tp) => ClosedAt(c, pid, Val(position.sl_price), "sl")
                            /\ (tp /\ ~sl) => ClosedAt(c, pid, Val(position.tp_price), "tp")
                            /\ (sl /\ tp) => (Untouched(c, pid) /\ pid \in c.ret.sltp_conflicts)
                            /\ (~sl /\ ~tp) => (Untouched(c, pid) /\ pid \notin c.ret.sltp_conflicts)
                  /\ (\A pid \in Guarded(sim) :
                         SLHolds(positions[pid], bar) = TPHolds(positions[pid], bar))
                        => (c.db.accounts = accounts /\ c.db.trades = trades)

\* a buy position closed at its SL price although a TP level was set
C9_Witness ==
    \E pid \in DOMAIN positions :
       /\ positions[pid].status = "closed"
       /\ positions[pid].side = "buy"
       /\ IsSome(positions[pid].tp_price)
       /\ \E i \in TradesFor(DB, pid) : Some(trades[i].exit_price) = positions[pid].sl_price

\* the pending orders of the simulation that are still pending
Waiting(sim) ==
    {i \in DOMAIN pendings : pendings[i].simulation_id = sim /\ pendings[i].status = "pending"}

\* the execution condition as the specification states it
Fires(p, bar) ==
    IF (p.order_type = "limit" /\ p.side = "buy") \/ (p.order_type = "stop" /\ p.side = "sell")
    THEN bar.low <= p.trigger_price
    ELSE bar.high >= p.trigger_price

\* the positions a call added
Added(c) == (DOMAIN c.db.positions) \ (DOMAIN positions)

\* C10: on every successful advance_time a pending order is executed exactly
\* when its condition holds on the bar; each executed order adds one order and
\* one open position with its side, lot size and trigger price as entry price;
\* an order whose condition does not hold is left as it was.
C10_PendingExecution ==
    LET sim == get_active_simulation(DB)
    IN  \A t \in NewTimes, order \in RowOrders(DB) :
           LET c == advance_time(DB, t, order)
               bar == Val(get_candle_at_time("M10", c.ret.current_time))
               fired == {i \in Waiting(sim) : Fires(pendings[i], bar)}
           IN  c.ret.error = Ok =>
                  /\ \A i \in fired : c.db.pendings[i].status = "executed"
                  /\ \A i \in Waiting(sim) \ fired : c.db.pendings[i] = pendings[i]
                  /\ Len(c.db.orders) = Len(orders) + Cardinality(fired)
                  /\ Len(c.db.positions) = Len(positions) + Cardinality(fired)
                  /\ \E f \in [fired -> Added(c)] :
                        /\ \A i, j \in fired : i # j => f[i] # f[j]
                        /\ \A i \in fired :
                              LET position == c.db.positions[f[i]]
                                  o == c.db.orders[position.order_id]
                              IN  /\ position.status = "open"
                                  /\ position.side = pendings[i].side
                                  /\ position.lot_size = pendings[i].lot_size
                                  /\ position.entry_price = pendings[i].trigger_price
                                  /\ position.order_id \notin DOMAIN orders
                                  /\ o.side = pendings[i].side
                                  /\ o.lot_size = pendings[i].lot_size
                                  /\ o.entry_price = pendings[i].trigger_price

\* a stop-buy order executed at its trigger price, above the entry of the
\* market position beside it
C10_Witness ==
    \E i \in DOMAIN pendings, pid \in DOMAIN positions :
       /\ pendings[i].status = "executed"
       /\ pendings[i].order_type = "stop"
       /\ pendings[i].side = "buy"
       /\ positions[pid].status = "open"
       /\ positions[pid].entry_price = pendings[i].trigger_price
       /\ positions[pid].opened_at = Val(pendings[i].executed_at)

-----------------------------------------------------------------------------
(* Properties: the clock *)

\* C11: advance_time with no active simulation returns the error
\* "No active simulation", and with an active simulation in status created or
\* paused it returns the error "Simulation is not running"; in both cases the
\* clock, the positions, the pending orders, the trades and the accounts are
\* left as they were, whatever the bar at the requested time would trigger.
C11_AdvanceOnlyRunning ==
    \A t \in NewTimes, order \in RowOrders(DB) :
       LET c == advance_time(DB, t, order)
       IN  /\ Active(DB) = {} =>
                 c.ret = [error |-> "No active simulation"] /\ c.db = DB
           /\ \A sim \in Active(DB) :
                 sims[sim].status \in {"created", "paused"} =>
                    c.ret = [error |-> "Simulation is not running"] /\ c.db = DB

\* a paused simulation holds an open position and the market has a later bar
\* than its clock
C11_Witness ==
    \E sim \in Active(DB) :
       /\ sims[sim].status = "paused"
       /\ OpenOf(sim) # {}
       /\ \E t \in NewTimes : t > sims[sim].current_time /\ IsSome(SettledTime(t))

\* M10 has no data at t: the market is closed or no bar is stamped t
NoData(t) == ~is_market_open(t) \/ t \notin TimesOf("M10")

\* the M10 timestamps after t that lie within trading hours
NextOpen(t) == {u \in TimesOf("M10") : u > t /\ is_market_open(u)}

Running(db) == {sim \in Active(db) : db.sims[sim].status = "running"}

\* C12: advance_time(t) on a running simulation, when M10 has no data at t,
\* commits the earliest M10 timestamp after t that lies within trading hours,
\* and returns the end-of-data error, leaving every table as it was, exactly
\* when there is no such timestamp.
C12_SettlesOnNextData ==
    \A sim \in Running(DB), t \in ClockTimes :
       NoData(t) =>
          LET c == advance_time(DB, t, <<>>)
          IN  IF NextOpen(t) = {}
              THEN /\ c.ret = [error |-> "No more data available - simulation reached end of data"]
                   /\ c.db = DB
              ELSE /\ c.ret.error = Ok
                   /\ c.db.sims[sim].current_time = SetMin(NextOpen(t))

\* the M10 timestamps at or after the Monday open that follows t
AfterWeekend(t) ==
    {u \in TimesOf("M10") : u >= At(t \div MinutesPerWeek + 1, 0, OpenHour, 0)}

\* the clock may rest on t: t is within trading hours and M10 has a bar at t
Restable(t) == is_market_open(t) /\ t \in TimesOf("M10")

\* C13: (weekend skip) when the clock of a running simulation stands at
\* Friday 23:50 and M10 has no bar between then and the first bar at or after
\* Monday 07:00, an advance requested into that span commits the first
\* timestamp at or after Monday 07:00; and every successful advance leaves
\* the clock on a time within trading hours for which M10 has a bar.
C13_WeekendSkip ==
    \A sim \in Running(DB), t \in ClockTimes :
       LET c == advance_time(DB, t, <<>>)
           now == sims[sim].current_time
           monday == SetMin(AfterWeekend(now))
       IN  /\ ( /\ weekday(now) = 4 /\ hour(now) = 23 /\ minute(now) = 50
                /\ AfterWeekend(now) # {}
                /\ \A u \in TimesOf("M10") : ~(now < u /\ u < monday)
                /\ now < t /\ t <= monday )
               => c.ret.error = Ok /\ c.db.sims[sim].current_time = monday
           /\ c.ret.error = Ok => Restable(c.db.sims[sim].current_time)

\* the committed clock of the simulation the advance_time call works on
CommittedTime == sims[advance.simulation].current_time

\* C14: within one advance_time call the pending orders are evaluated first,
\* SL and TP second, and the new current_time is committed last: while either
\* evaluation is still to run the committed current_time is the one from
\* before the call, and after a call that returned an error it is too.
C14_CommitsAfterEvaluation ==
    /\ advance.pc \in {"pending", "sltp"} => CommittedTime = advance.before
    /\ (advance.pc = "returned" /\ advance.ret.error # Ok) => CommittedTime = advance.before

\* the bar the trigger evaluations of the returned advance_time call looked at
AdvanceBar == Val(get_candle_at_time("M10", advance.new_time))

-----------------------------------------------------------------------------
(* Properties: stop and start *)

PriceNow(sim) == Val(get_current_price("M10", sims[sim].current_time))

\* the trades a call added
NewTrades(c) == (DOMAIN c.db.trades) \ (DOMAIN trades)

C18_StartSupersedes ==
    \A start_time \in StartTimes, initial_balance \in InitialBalances :
       LET c == start(DB, start_time, initial_balance)
           new == Len(sims) + 1
       IN  /\ c.ret.error = Ok
           /\ \A sim \in DOMAIN sims :
                 c.db.sims[sim] = IF sim \in Active(DB)
                                  THEN [sims[sim] EXCEPT !.status = "stopped"]
                                  ELSE sims[sim]
           /\ \A sim \in DOMAIN accounts : c.db.accounts[sim] = accounts[sim]
           /\ c.db.orders = orders
           /\ c.db.positions = positions
           /\ c.db.trades = trades
           /\ c.db.pendings = pendings
           /\ DOMAIN c.db.sims = 1..new
           /\ DOMAIN c.db.accounts = 1..new
           /\ c.db.sims[new].status = "created"
           /\ c.db.sims[new].current_time = start_time
           /\ c.db.sims[new].start_time = start_time
           /\ c.db.accounts[new].initial_balance = initial_balance
           /\ c.db.accounts[new].balance = initial_balance
           /\ c.db.accounts[new].equity = initial_balance
           /\ c.db.accounts[new].realized_pnl = 0

\* a simulation superseded by start: it is stopped with a position still open
\* and a pending order still pending, and the newest simulation is fresh
C18_Witness ==
    \E sim \in DOMAIN sims :
       /\ sims[sim].status = "stopped"
       /\ OpenOf(sim) # {}
       /\ Waiting(sim) # {}
       /\ sim < Len(sims)
       /\ sims[Len(sims)].status = "created"
       /\ accounts[Len(sims)].balance = accounts[Len(sims)].initial_balance

-----------------------------------------------------------------------------
(* Properties: trading and the status of the simulation *)

\* the trading calls a client can make in the present state
TradingCalls ==
    {create_order(DB, side, lot, lv) : side \in Sides, lot \in LotSizes, lv \in LevelInputs}
    \cup {close_position(DB, id) : id \in RowIds(DB)}
    \cup {create_pending_order(DB, ty, side, lot, tr) :
             ty \in OrderTypes, side \in Sides, lot \in LotSizes, tr \in TriggerPrices}

\* every trading call succeeds only if the active simulation has one of the
\* statuses, and otherwise returns an error and leaves every table as it was
TradingOnlyIn(statuses) ==
    \A c \in TradingCalls :
       IF \E sim \in Active(DB) : sims[sim].status \in statuses
       THEN c.ret.error # Ok => c.db = DB
       ELSE c.ret.error # Ok /\ c.db = DB

C20_ClosePosition ==
    \A sim \in Active(DB), id \in RowIds(DB) :
       Tradable(sim) =>
          LET c == close_position(DB, id)
          IN  IF id \in OpenOf(sim)
              THEN LET position == positions[id]
                       exit == PriceNow(sim)
                       pips == IF position.side = "buy" THEN exit - position.entry_price
                                                        ELSE position.entry_price - exit
                       trade == c.db.trades[Len(trades) + 1]
                   IN  /\ c.ret.error = Ok
                       /\ c.ret.exit_price = exit
                       /\ c.db.trades = Append(trades, trade)
                       /\ trade.simulation_id = sim
                       /\ trade.position_id = id
                       /\ trade.side = position.side
                       /\ trade.lot_size = position.lot_size
                       /\ trade.entry_price = position.entry_price
                       /\ trade.exit_price = exit
                       /\ trade.realized_pnl_pips = pips
                       /\ trade.realized_pnl * LotScale = pips * position.lot_size * 100000
                       /\ trade.closed_at = sims[sim].current_time
                       /\ c.db.accounts =
                             [accounts EXCEPT
                                ![sim].balance = @ + trade.realized_pnl,
                                ![sim].realized_pnl = @ + trade.realized_pnl,
                                ![sim].consecutive_losses = c.db.accounts[sim].consecutive_losses]
                       /\ c.db.positions =
                             [positions EXCEPT ![id].status = "closed",
                                               ![id].closed_at = Some(sims[sim].current_time)]
                       /\ c.db.sims = sims
                       /\ c.db.orders = orders
                       /\ c.db.pendings = pendings
              ELSE c.ret = [error |-> "Position not found"] /\ c.db = DB

\* the active simulation trades while a position of an earlier simulation is
\* still open, and a sell position is closed with a trade that moved the balance
C20_Witness ==
    \E sim \in Active(DB), other \in DOMAIN positions, i \in DOMAIN trades :
       /\ Tradable(sim)
       /\ positions[other].simulation_id # sim
       /\ positions[other].status = "open"
       /\ positions[trades[i].position_id].status = "closed"
       /\ trades[i].side = "sell"
       /\ trades[i].realized_pnl # 0

-----------------------------------------------------------------------------
(* Properties: the consecutive-loss streak *)

\* the streak a close with pnl_pips is to leave behind a streak of n
StreakRule(n, pnl_pips) ==
    CASE pnl_pips < 0 -> n + 1
      [] pnl_pips >= StreakResetPips -> 0
      [] OTHER -> n

\* the rule applied, from 0, to the first n trades of the table that belong to
\* the simulation, in the order they were recorded
RECURSIVE StreakAfter(_, _, _)
StreakAfter(db, sim, n) ==
    IF n = 0 THEN 0
    ELSE IF db.trades[n].simulation_id = sim
         THEN StreakRule(StreakAfter(db, sim, n - 1), db.trades[n].realized_pnl_pips)
         ELSE StreakAfter(db, sim, n - 1)

StreakFollows(db) ==
    \A sim \in DOMAIN db.sims :
       db.accounts[sim].consecutive_losses = StreakAfter(db, sim, Len(db.trades))

-----------------------------------------------------------------------------
(* Properties: orders and positions *)

PositionsOfOrder(db, oid) == {pid \in DOMAIN db.positions : db.positions[pid].order_id = oid}

Paired(db) ==
    /\ \A pid \in DOMAIN db.positions :
          LET position == db.positions[pid] IN
          /\ position.order_id \in DOMAIN db.orders
          /\ db.orders[position.order_id].simulation_id = position.simulation_id
          /\ db.orders[position.order_id].side = position.side
          /\ db.orders[position.order_id].lot_size = position.lot_size
          /\ db.orders[position.order_id].entry_price = position.entry_price
    /\ \A oid \in DOMAIN db.orders : Cardinality(PositionsOfOrder(db, oid)) = 1

\* C22: in every reachable state, and after every call, every position
\* references one order of the same simulation with the same side, lot size
\* and entry price, and every order is referenced by exactly one position,
\* whether the pair was made by create_order or by the execution of a pending
\* order.
C22_OrdersPairedWithPositions ==
    /\ Paired(DB)
    /\ \A d \in Outcomes : Paired(d)

\* a pending order has been executed next to two market orders, and a further
\* market order is accepted
C22_Witness ==
    /\ \E k \in DOMAIN pendings :
          /\ pendings[k].status = "executed"
          /\ \E pid \in DOMAIN positions :
                /\ positions[pid].entry_price = pendings[k].trigger_price
                /\ positions[pid].opened_at = Val(pendings[k].executed_at)
    /\ \E pid \in DOMAIN positions : positions[pid].entry_price # 15010
    /\ \E side \in Sides, lot \in LotSizes :
          LET c == create_order(DB, side, lot, NoLevels)
          IN  /\ Len(c.db.orders) = Len(orders) + 1
              /\ Len(c.db.positions) = Len(positions) + 1

-----------------------------------------------------------------------------
(* Properties: the bar the triggers are evaluated on *)

\* the bar check_pending_orders_execution and check_sltp_triggers read for an
\* advance that settled on time t
EvaluatedBar(t) == get_candle_at_time("M10", t)

ExecutedBy(db, after) ==
    {k \in DOMAIN db.pendings :
        db.pendings[k].status = "pending" /\ after.pendings[k].status = "executed"}

ClosedBy(db, after) ==
    {pid \in DOMAIN db.positions :
        db.positions[pid].status = "open" /\ after.positions[pid].status = "closed"}

\* an advance of the simulation in db that evaluates the bar again leaves the
\* last pending order and the last position of db alone
NotEvaluatedAgain(db, bar, made_pending, made_position) ==
    \A t2 \in NewTimes :
       \A order \in RowOrders(db) :
          LET again == advance_time(db, t2, order) IN
          (again.ret.error = Ok /\ EvaluatedBar(again.ret.current_time) = bar) =>
             /\ made_pending => again.db.pendings[Len(db.pendings)].status = "pending"
             /\ made_position =>
                   /\ again.db.positions[Len(db.positions)].status = "open"
                   /\ Len(db.positions) \notin again.ret.sltp_conflicts

\* C23: a successful advance evaluates pending orders and SL/TP on one stored
\* M10 bar timestamped at or before the new time, and a later advance does not
\* evaluate that bar again against a pending order or a position created after
\* the first one.
C23_EvaluatesBarOnce ==
    \A t1 \in NewTimes :
       \A order \in RowOrders(DB) :
          LET first == advance_time(DB, t1, order)
              bar == EvaluatedBar(first.ret.current_time)
          IN  first.ret.error = Ok =>
                 /\ IsSome(bar)
                 /\ Val(bar) \in candles
                 /\ Val(bar).timestamp <= first.ret.current_time
                 /\ \A k \in ExecutedBy(DB, first.db) : should_execute(pendings[k], Val(bar))
                 /\ \A pid \in ClosedBy(DB, first.db) :
                       sl_triggered(positions[pid], Val(bar)) \/ tp_triggered(positions[pid], Val(bar))
                 /\ \A ty \in OrderTypes, side \in Sides, lot \in LotSizes, tr \in TriggerPrices :
                       LET made == create_pending_order(first.db, ty, side, lot, tr)
                       IN  made.ret.error = Ok => NotEvaluatedAgain(made.db, bar, TRUE, FALSE)
                 /\ \A side \in Sides, lot \in LotSizes, lv \in LevelInputs :
                       LET made == create_order(first.db, side, lot, lv)
                       IN  made.ret.error = Ok => NotEvaluatedAgain(made.db, bar, FALSE, TRUE)

-----------------------------------------------------------------------------
(* Properties: aggregation of finer bars *)

\* the stored rows of the timeframe from start to as_of, inside trading hours
\* for M10 and H1
SubBars(tf, from, as_of) ==
    {r \in candles :
        /\ r.timeframe = tf
        /\ r.timestamp >= from
        /\ r.timestamp <= as_of
        /\ (tf \in {"M10", "H1"} => is_market_open(r.timestamp))}

RECURSIVE VolumeOf(_)
VolumeOf(R) ==
    IF R = {} THEN 0
    ELSE LET r == CHOOSE x \in R : TRUE IN r.volume + VolumeOf(R \ {r})

\* the bar d is the composition of the rows R
Composed(d, R) ==
    /\ \E r \in R : d.open = r.open /\ \A q \in R : r.timestamp <= q.timestamp
    /\ \E r \in R : d.close = r.close /\ \A q \in R : r.timestamp >= q.timestamp
    /\ \E r \in R : d.high = r.high /\ \A q \in R : r.high >= q.high
    /\ \E r \in R : d.low = r.low /\ \A q \in R : r.low <= q.low
    /\ d.volume = VolumeOf(R)

\* the bar was built from rows of another timeframe
Synthesized(d, tf) == \E s \in d.src : s[1] # tf

SourceRows(d) == {r \in candles : <<r.timeframe, r.timestamp>> \in d.src}

-----------------------------------------------------------------------------
(* Properties: the calendar *)

DayOf(t) == t \div MinutesPerDay
WeekOf(t) == t \div MinutesPerWeek

\* the start the bar of the timeframe holding as_of is to have
AlignedStart(timeframe, as_of, s) ==
    CASE timeframe = "M10" ->
            /\ s % 10 = 0
            /\ s <= as_of /\ as_of < s + 10
      [] timeframe = "H1" ->
            /\ minute(s) = 0
            /\ s <= as_of /\ as_of < s + MinutesPerHour
      [] timeframe = "D1" ->
            /\ hour(s) = OpenHour /\ minute(s) = 0
            /\ DayOf(s) = IF hour(as_of) < OpenHour THEN DayOf(as_of) - 1 ELSE DayOf(as_of)
            /\ s <= as_of /\ as_of < s + MinutesPerDay
      [] timeframe = "W1" ->
            /\ weekday(s) = 0 /\ hour(s) = OpenHour /\ minute(s) = 0
            /\ WeekOf(s) = IF weekday(as_of) = 0 /\ hour(as_of) < OpenHour
                           THEN WeekOf(as_of) - 1 ELSE WeekOf(as_of)
            /\ s <= as_of /\ as_of < s + MinutesPerWeek

\* C25: calculate_candle_start_time aligns M10 to a multiple of ten minutes, H1
\* to the top of the hour, D1 to 07:00 of the day (of the day before when the
\* hour is before 7) and W1 to Monday 07:00 of the week (of the week before on
\* a Monday before 07:00); the start is at or before the as-of time and less
\* than one bar length before it, the start of a start is the start, and any
\* other timeframe raises an error.
C25_CandleStartAligned ==
    "candle_start" \in DOMAIN query =>
       IF query.timeframe \in Timeframes
       THEN /\ AlignedStart(query.timeframe, query.current_time, query.candle_start)
            /\ calculate_candle_start_time(query.timeframe, query.candle_start) = query.candle_start
       ELSE query.candle_start = ValueError

\* the weekly start of a Monday before 07:00 has been computed
C25_Witness ==
    /\ "candle_start" \in DOMAIN query
    /\ query.timeframe = "W1"
    /\ weekday(query.current_time) = 0
    /\ hour(query.current_time) < OpenHour
    /\ query.candle_start = At(0, 0, 7, 0)

\* the closure window: Saturday from 07:00, Sunday, Monday before 07:00
InClosure(t) ==
    \/ weekday(t) = 6
    \/ weekday(t) = 5 /\ (t % MinutesPerDay) >= OpenHour * MinutesPerHour
    \/ weekday(t) = 0 /\ (t % MinutesPerDay) < OpenHour * MinutesPerHour

\* C26: is_market_open is false for every time on Sunday, on Saturday from
\* 07:00 and on Monday before 07:00, and true for every other time.
C26_MarketHours ==
    "market_open" \in DOMAIN query => (query.market_open <=> ~InClosure(query.current_time))

\* the market was found open on a Saturday before 07:00
C26_Witness ==
    /\ "market_open" \in DOMAIN query
    /\ weekday(query.current_time) = 5
    /\ hour(query.current_time) = 6
    /\ query.market_open

-----------------------------------------------------------------------------
(* Properties: trading hours of the series *)

Stamps(series) == {series[i].timestamp : i \in DOMAIN series}

StoredStamps(tf) == {r.timestamp : r \in {c \in candles : c.timeframe = tf}}

\* the series of the three queries for the timeframe, over all arguments
SeriesOf(tf) ==
    {get_candles(tf, s, e, limit) :
        s \in {None, Some(Fri2330 + 10)},
        e \in {None} \cup {Some(t) : t \in AsOfTimes}, limit \in 1..MaxLimit}
    \cup {get_candles_before(tf, t, limit) : t \in AsOfTimes, limit \in 1..MaxLimit}
    \cup {get_candles_with_partial_last(tf, t, limit).candles :
             t \in AsOfTimes, limit \in 1..MaxLimit}

InHoursSeries ==
    \A tf \in {"M10", "H1"} :
       \A series \in SeriesOf(tf) :
          \A i \in DOMAIN series : ~InClosure(series[i].timestamp)

\* the partial bars of the timeframes are built from rows inside trading hours
PartialFromOpenHours(tfs) ==
    \A tf \in tfs, t \in AsOfTimes :
       LET partial == generate_partial_candle(tf, calculate_candle_start_time(tf, t), t)
       IN  IsSome(partial) => \A r \in SourceRows(Val(partial)) : ~InClosure(r.timestamp)

\* get_candles and get_candles_before return the first, and the last, limit
\* stored D1 and W1 rows in range, whatever their timestamps
UnfilteredSeries ==
    \A tf \in {"D1", "W1"}, limit \in 1..MaxLimit :
       /\ \A t \in AsOfTimes :
             Stamps(get_candles_before(tf, t, limit))
                = LargestN({x \in StoredStamps(tf) : x <= t}, limit)
       /\ Stamps(get_candles(tf, None, None, limit)) = SmallestN(StoredStamps(tf), limit)

\* C27 as stated: every bar of an M10 or H1 series is stamped inside trading
\* hours, every partial bar is built from sub-bars inside trading hours, and D1
\* and W1 series are not filtered.
C27_TradingHoursAllPartials ==
    /\ InHoursSeries
    /\ PartialFromOpenHours(Timeframes)
    /\ UnfilteredSeries

\* C27: every bar of an M10 or H1 series returned by get_candles,
\* get_candles_before or get_candles_with_partial_last is stamped inside
\* trading hours, the partial H1 and D1 bars are built from sub-bars inside
\* trading hours, and D1 and W1 series are not filtered (the partial W1 bar is
\* built from the D1 rows in range, whatever their timestamps).
C27_TradingHours ==
    /\ InHoursSeries
    /\ PartialFromOpenHours({"H1", "D1"})
    /\ UnfilteredSeries

\* the chart holds a daily series with a bar stamped in the closure window,
\* while the 10-minute table holds a Sunday row at or before the as-of time
\* and the hourly partial bar of that time exists
C27_Witness ==
    /\ query.timeframe = "D1"
    /\ \E i \in DOMAIN query.candles :
          InClosure(query.candles[i].timestamp) /\ ~Synthesized(query.candles[i], "D1")
    /\ \E x \in StoredStamps("M10") : InClosure(x) /\ x <= query.current_time
    /\ IsSome(generate_partial_candle("H1", floor_hour(query.current_time), query.current_time))
    /\ \E series \in SeriesOf("M10") : Len(series) = MaxLimit

-----------------------------------------------------------------------------
(* Properties: gaps in the hourly series *)

\* the M10 rows of the hour inside trading hours, up to the time
HourRows(h, upto) == SubBars("M10", h, IF upto < h + MinutesPerHour - 1 THEN upto ELSE h + MinutesPerHour - 1)

\* the stored hourly rows the query reads: the last limit ones inside trading hours
StoredHours(as_of, limit) ==
    LargestN({x \in StoredStamps("H1") : x <= as_of /\ ~InClosure(x)}, limit)

\* the hours the series is to show: the stored hours and the trading hours
\* after the oldest of them (any hour when none is stored) that have M10 rows,
\* all before the current hour, and the current hour when it has M10 rows up
\* to the as-of time
HoursToShow(as_of, limit) ==
    LET stored == StoredHours(as_of, limit)
        now == floor_hour(as_of)
        hours == {floor_hour(r.timestamp) : r \in SubBars("M10", 0, as_of)}
        regenerated == {h \in hours \ stored : stored # {} => h > SetMin(stored)}
    IN  {h \in stored \cup regenerated : h < now}
        \cup (IF HourRows(now, as_of) # {} THEN {now} ELSE {})

-----------------------------------------------------------------------------
(* Properties: the account snapshot *)

RECURSIVE SumOver(_, _)
SumOver(S, f) ==
    IF S = {} THEN 0
    ELSE LET x == CHOOSE y \in S : TRUE IN f[x] + SumOver(S \ {x}, f)

\* the open positions the ledger lists: those of the active simulation
ListedOpen == {pid \in DOMAIN positions :
                  /\ positions[pid].status = "open"
                  /\ positions[pid].simulation_id \in Active(DB)}

\* the close of the latest M10 bar at or before the clock of the active simulation
LivePrice ==
    LET sim == CHOOSE s \in Active(DB) : TRUE
        bars == {c \in candles : c.timeframe = "M10" /\ c.timestamp <= sims[sim].current_time}
    IN  (CHOOSE c \in bars : \A q \in bars : q.timestamp <= c.timestamp).close

UnrealizedByPosition ==
    [pid \in ListedOpen |->
        (IF positions[pid].side = "buy"
         THEN LivePrice - positions[pid].entry_price
         ELSE positions[pid].entry_price - LivePrice)
           * positions[pid].lot_size * (LOT_UNIT \div LotScale)]

MarginByPosition ==
    [pid \in ListedOpen |->
        (positions[pid].entry_price * positions[pid].lot_size * (CURRENCY_PER_LOT \div LotScale))
           \div LEVERAGE]

OnSide(side) == {pid \in ListedOpen : positions[pid].side = side}

Larger(a, b) == IF a > b THEN a ELSE b

-----------------------------------------------------------------------------
(* Properties: the SL/TP pair *)

\* the price, in points, that stored pips stand for
PriceFor(side, entry, centi_pips) ==
    IF side = "buy" THEN entry + centi_pips * PointsPerCentiPip
    ELSE entry - centi_pips * PointsPerCentiPip

Distance(a, b) == IF a > b THEN a - b ELSE b - a

\* the stored level is absent, or a price and the pips that give that price
\* back to within tolerance points
PairWithin(side, entry, price, pips, tolerance) ==
    \/ price = None /\ pips = None
    \/ /\ IsSome(price) /\ IsSome(pips)
       /\ Distance(Val(price), PriceFor(side, entry, Val(pips))) <= tolerance

LevelsWithin(tolerance) ==
    ("op" \in DOMAIN query /\ query.error = Ok) =>
       /\ PairWithin(query.side, query.entry_price, query.sl_price, query.sl_pips, tolerance)
       /\ PairWithin(query.side, query.entry_price, query.tp_price, query.tp_pips, tolerance)

\* a level a whole number of hundredths of a pip from the entry price
WholeCentiPips(entry, price) == IsSome(price) => (Val(price) - entry) % PointsPerCentiPip = 0

\* C30 as stated: after every successful create_order or set_sltp the stored
\* price and pips of SL, and of TP, are both absent or both present with
\* price = entry + pips x 0.01 for a buy and entry - pips x 0.01 for a sell,
\* so that the pips of a price-based level give the price back.
C30_LevelsExactPair == LevelsWithin(0)

\* C30: after every successful create_order or set_sltp the stored price and
\* pips of SL, and of TP, are both absent or both present, and the pips give
\* the price back to within half a hundredth of a pip (the rounding of the
\* pips column), exactly when the level is a whole number of hundredths of a
\* pip from the entry price.
C30_LevelsPairWithinRounding ==
    /\ LevelsWithin(PointsPerCentiPip \div 2)
    /\ ("op" \in DOMAIN query /\ query.error = Ok) =>
          /\ WholeCentiPips(query.entry_price, query.sl_price) =>
                PairWithin(query.side, query.entry_price, query.sl_price, query.sl_pips, 0)
          /\ WholeCentiPips(query.entry_price, query.tp_price) =>
                PairWithin(query.side, query.entry_price, query.tp_price, query.tp_pips, 0)

\* a sell has been given an SL price whose pips are rounded and a TP in whole
\* pips that is stored exactly
C30_Witness ==
    /\ "op" \in DOMAIN query
    /\ query.error = Ok
    /\ query.side = "sell"
    /\ IsSome(query.sl_price) /\ IsSome(query.sl_pips)
    /\ ~WholeCentiPips(query.entry_price, query.sl_price)
    /\ Val(query.sl_price) # PriceFor("sell", query.entry_price, Val(query.sl_pips))
    /\ IsSome(query.tp_price) /\ IsSome(query.tp_pips)
    /\ Val(query.tp_price) = PriceFor("sell", query.entry_price, Val(query.tp_pips))
    /\ Val(query.tp_pips) * PointsPerCentiPip = 30 * PointsPerPip

-----------------------------------------------------------------------------
(* Properties: requests that give a level twice *)

GivenTwice(lv) ==
    \/ lv.sl_price # None /\ lv.sl_pips # None
    \/ lv.tp_price # None /\ lv.tp_pips # None

Rejected(c) ==
    /\ c.ret.error # Ok
    /\ c.db = DB

\* C31: a create-order or set-SL/TP request that gives both the price and the
\* pips of its SL, or of its TP, is rejected with an error and creates or
\* changes no position (nor any other row).
C31_PriceAndPipsExclusive ==
    \A lv \in RequestLevels :
       GivenTwice(lv) =>
          /\ \A side \in Sides, lot \in LotSizes : Rejected(create_order_route(DB, side, lot, lv))
          /\ \A id \in RowIds(DB) : Rejected(set_sltp_route(DB, id, lv))

\* a position is open with its levels set, and requests that give a level
\* once are accepted by both routes: the same requests with the level given
\* twice are the ones rejected
C31_Witness ==
    /\ \E id \in DOMAIN positions :
          /\ positions[id].status = "open"
          /\ positions[id].sl_price # None
          /\ \E lv \in RequestLevels :
                ~GivenTwice(lv) /\ set_sltp_route(DB, id, lv).ret.error = Ok
    /\ \E side \in Sides, lot \in LotSizes, lv \in RequestLevels :
          /\ GivenTwice(lv)
          /\ create_order(DB, side, lot, lv).ret.error = Ok
          /\ create_order_route(DB, side, lot, lv).ret.error # Ok
          /\ create_order_route(DB, side, lot, NoLevels).ret.error = Ok

-----------------------------------------------------------------------------
(* Properties: concurrent requests *)

InHandler == {h \in Clients : advance[h].pc = "running"}

TradesOfPosition(id) == {i \in DOMAIN trades : trades[i].position_id = id}

RECURSIVE RealizedSum(_)
RealizedSum(I) ==
    IF I = {} THEN 0
    ELSE LET i == CHOOSE x \in I : TRUE
         IN  trades[i].realized_pnl + RealizedSum(I \ {i})

\* C32: requests on one simulation are served one at a time: at most one
\* handler is between its first read and its commit, and the tables are as
\* its session loaded them; so however the requests of the clients
\* interleave, a position has at most one trade and is closed when it has
\* one, the balance is the initial balance plus the realized P&L of all
\* trades (no update is lost), and every order has its position (no handler
\* sees an order without it).
C32_Serialized ==
    /\ Cardinality(InHandler) <= 1
    /\ \A h \in InHandler : advance[h].loaded = DB
    /\ \A id \in DOMAIN positions :
          /\ Cardinality(TradesOfPosition(id)) <= 1
          /\ (positions[id].status = "closed") = (TradesOfPosition(id) # {})
    /\ \A s \in DOMAIN accounts :
          accounts[s].balance =
             accounts[s].initial_balance
                + RealizedSum({i \in DOMAIN trades : trades[i].simulation_id = s})
    /\ Len(orders) = Len(positions)
    /\ \A id \in DOMAIN positions : positions[id].order_id = id

\* both clients asked to close the same open position, the first request has
\* been served and the second is still waiting
C32_Witness ==
    \E id \in DOMAIN positions :
       /\ positions[id].status = "closed"
       /\ Cardinality(TradesOfPosition(id)) = 1
       /\ trades[1].realized_pnl # 0
       /\ \E h \in Clients :
             /\ advance[h].pc = "waiting"
             /\ advance[h].request.kind = "close_position"
             /\ advance[h].request.position_id = id

-----------------------------------------------------------------------------
(* Properties: one lot unit on every path *)

SignedPips(side, entry, exit) == IF side = "buy" THEN exit - entry ELSE entry - exit

\* pips x lots x 100,000 units x 0.01 yen, in hundredths of a yen with the
\* lots in hundredths
MoneyOfPips(pips, lot_size) == pips * lot_size * (LOT_UNIT \div LotScale)

ExitPricesOf(rows) == {r.close : r \in rows} \cup {r.high : r \in rows} \cup {r.low : r \in rows}

-----------------------------------------------------------------------------
(* Properties: the daily series *)

\* 07:00 of the date of t
SevenOf(t) == DayOf(t) * MinutesPerDay + OpenHour * MinutesPerHour

\* the bar is the stored daily row at stored_at, shifted to 07:00 of its date
\* when it is stamped earlier
StoredDaily(d, stored_at) ==
    /\ d.src = {<<"D1", stored_at>>}
    /\ d.timestamp = IF stored_at < SevenOf(stored_at) THEN SevenOf(stored_at) ELSE stored_at

-----------------------------------------------------------------------------
(* Properties: the order of a series *)

\* C35: every series of get_candles_with_partial_last is in strictly
\* ascending timestamp order, no bar is stamped later than the as-of time, and
\* the bar of the period that holds the as-of time (the partial bar) is the
\* last element; a daily or weekly bar built from finer rows is that bar.
C35_SeriesOrdered ==
    LET series == query.candles
    IN  /\ \A i, j \in DOMAIN series : i < j => series[i].timestamp < series[j].timestamp
        /\ \A i \in DOMAIN series :
              /\ series[i].timestamp <= query.current_time
              /\ AlignedStart(query.timeframe, query.current_time, series[i].timestamp)
                    => i = Len(series)
              /\ (query.timeframe \in {"D1", "W1"} /\ Synthesized(series[i], query.timeframe))
                    => /\ i = Len(series)
                       /\ AlignedStart(query.timeframe, query.current_time, series[i].timestamp)

-----------------------------------------------------------------------------
(* Properties: pending orders and the margin *)

\* C36: a pending order whose condition holds on the bar of a successful
\* advance_time is executed and opens its position also when the margin of
\* the open positions plus the margin of the new position exceeds the balance.
C36_PendingIgnoresMargin ==
    LET sim == get_active_simulation(DB)
    IN  \A t \in NewTimes, order \in RowOrders(DB) :
           LET c == advance_time(DB, t, order)
           IN  c.ret.error = Ok =>
                  LET bar == Val(get_candle_at_time("M10", c.ret.current_time))
                  IN  \A i \in Waiting(sim) :
                         (/\ Fires(pendings[i], bar)
                          /\ UsedMargin(OpenOf(sim))
                                + MarginOf(pendings[i].trigger_price, pendings[i].lot_size)
                             > accounts[sim].balance)
                         => /\ c.db.pendings[i].status = "executed"
                            /\ \E pid \in Added(c) :
                                  /\ c.db.positions[pid].status = "open"
                                  /\ c.db.positions[pid].side = pendings[i].side
                                  /\ c.db.positions[pid].lot_size = pendings[i].lot_size
                                  /\ c.db.positions[pid].entry_price = pendings[i].trigger_price

\* a pending order has been executed next to an open position, and the margin
\* of the open positions exceeds the balance, which create_order would refuse
C36_Witness ==
    LET sim == get_active_simulation(DB)
    IN  /\ sim # 0
        /\ \E i \in DOMAIN pendings : pendings[i].status = "executed"
        /\ Cardinality(OpenOf(sim)) = 2
        /\ UsedMargin(OpenOf(sim)) > accounts[sim].balance
        /\ \A side \in Sides, lot \in LotSizes :
              create_order(DB, side, lot, NoLevels).ret.error = "Insufficient margin"

-----------------------------------------------------------------------------
(* Properties: the ledger of a stopped simulation *)

RowsOf(table, s) == {i \in DOMAIN table : table[i].simulation_id = s}

\* the rows of the simulation in the table are the same rows with the same values
SameRows(before, after, s) ==
    /\ RowsOf(after, s) = RowsOf(before, s)
    /\ \A i \in RowsOf(before, s) : after[i] = before[i]

\* C37: a stopped simulation keeps its status, current_time, balance, realized
\* P&L and loss streak, and its positions, trades and pending orders, under
\* every later start, pause, resume, advance_time, create_order,
\* close_position, set_sltp, pending-order call and stop.
C37_StoppedLedgerFrozen ==
    [][\A s \in DOMAIN sims :
          sims[s].status = "stopped" =>
             /\ s \in DOMAIN sims'
             /\ sims'[s].status = "stopped"
             /\ sims'[s].current_time = sims[s].current_time
             /\ accounts'[s].balance = accounts[s].balance
             /\ accounts'[s].realized_pnl = accounts[s].realized_pnl
             /\ accounts'[s].consecutive_losses = accounts[s].consecutive_losses
             /\ SameRows(positions, positions', s)
             /\ SameRows(trades, trades', s)
             /\ SameRows(pendings, pendings', s)]_vars

\* the stopped simulation still holds its open position with its levels, its
\* trade and its cancelled pending order, while a later simulation has
\* advanced its clock, closed a position of its own and been stopped too
C37_Witness ==
    /\ Len(sims) >= 2
    /\ sims[1].status = "stopped" /\ sims[1].current_time = Fri2330
    /\ \E i \in RowsOf(positions, 1) : positions[i].status = "open" /\ positions[i].sl_price # None
    /\ RowsOf(trades, 1) # {}
    /\ \E i \in RowsOf(pendings, 1) : pendings[i].status = "cancelled"
    /\ sims[2].status = "stopped" /\ sims[2].current_time = Fri2330 + 10
    /\ RowsOf(trades, 2) # {}

-----------------------------------------------------------------------------
(* Properties: a position whose SL and TP are both met by one bar *)

\* the bar's range reaches the level, on the side of the position
HitsSL(p, bar) ==
    /\ p.sl_price # None
    /\ IF p.side = "buy" THEN bar.low <= p.sl_price[1] ELSE bar.high >= p.sl_price[1]
HitsTP(p, bar) ==
    /\ p.tp_price # None
    /\ IF p.side = "buy" THEN bar.high >= p.tp_price[1] ELSE bar.low <= p.tp_price[1]

\* the stored 10-minute bar an advance to the time evaluates
LatestBar(t) ==
    CHOOSE b \in candles :
       /\ b.timeframe = "M10" /\ b.timestamp <= t
       /\ \A o \in candles : (o.timeframe = "M10" /\ o.timestamp <= t) => o.timestamp <= b.timestamp

\* the open positions both of whose levels the bar meets
Conflicting(bar) ==
    {i \in DOMAIN positions : /\ positions[i].status = "open"
                              /\ HitsSL(positions[i], bar) /\ HitsTP(positions[i], bar)}

\* every successful advance reports exactly the conflicting positions
ConflictsReported ==
    \A t \in NewTimes, order \in RowOrders(DB) :
       LET c == advance_time(DB, t, order)
       IN  c.ret.error = Ok => c.ret.sltp_conflicts = Conflicting(LatestBar(c.ret.current_time))

\* what a step does to an open position that is in conflict on the bar of
\* the present time
ConflictCarried(i) ==
    LET p == positions[i]
        q == positions'[i]
        bar == LatestBar(sims'[p.simulation_id].current_time)
        sl == HitsSL(p, bar)
        tp == HitsTP(p, bar)
    IN  /\ q.sl_price = p.sl_price /\ q.tp_price = p.tp_price
        /\ q.side = p.side /\ q.entry_price = p.entry_price /\ q.lot_size = p.lot_size
        /\ (sl = tp) => q = p
        /\ (sl # tp) =>
              /\ q.status = "closed"
              /\ \E k \in DOMAIN trades' :
                    /\ k \notin DOMAIN trades
                    /\ trades'[k].position_id = i
                    /\ trades'[k].exit_price = IF sl THEN p.sl_price[1] ELSE p.tp_price[1]

\* C38: a position reported as an SL/TP conflict stays open with its levels;
\* every later advance evaluates it again, reports it again when the bar meets
\* both levels, and closes it at the level when the bar meets exactly one.
C38_ConflictReevaluated ==
    /\ []ConflictsReported
    /\ [][\A i \in Conflicting(LatestBar(sims[1].current_time)) : ConflictCarried(i)]_vars

\* the clock stands on the bar that met both levels, the position is still
\* open with both levels, and the bar before it meets exactly one of them
C38_Witness ==
    /\ sims[1].current_time = Fri2330 + 10
    /\ \E i \in Conflicting(LatestBar(Fri2330 + 10)) :
          HitsSL(positions[i], LatestBar(Fri2330)) # HitsTP(positions[i], LatestBar(Fri2330))

-----------------------------------------------------------------------------
(* Properties: set_sltp replaces both levels *)

\* the position a set_sltp call can change: open, of the active simulation
Settable(id) ==
    /\ id \in DOMAIN positions
    /\ positions[id].status = "open"
    /\ positions[id].simulation_id \in Active(DB)

\* the stored price and pips of one level are what the call gave for it:
\* the price with its distance from the entry, the pips with the price at that
\* distance, or nothing
LevelAsGiven(p, stored_price, stored_pips, price, pips) ==
    LET sign == IF p.side = "buy" THEN 1 ELSE -1
    IN  IF price # None
        THEN stored_price = price /\ stored_pips = <<sign * (price[1] - p.entry_price)>>
        ELSE IF pips # None
        THEN stored_pips = pips /\ stored_price = <<p.entry_price + sign * pips[1]>>
        ELSE stored_price = None /\ stored_pips = None

\* nothing but the four level columns of the position differs
OnlyLevelsOf(db, id) ==
    /\ db.sims = sims /\ db.accounts = accounts /\ db.orders = orders
    /\ db.trades = trades /\ db.pendings = pendings
    /\ DOMAIN db.positions = DOMAIN positions
    /\ \A i \in DOMAIN positions : i # id => db.positions[i] = positions[i]
    /\ db.positions[id] = [positions[id] EXCEPT !.sl_price = db.positions[id].sl_price,
                                                !.sl_pips = db.positions[id].sl_pips,
                                                !.tp_price = db.positions[id].tp_price,
                                                !.tp_pips = db.positions[id].tp_pips]

\* C39: set_sltp on an open position of the active simulation stores for each
\* of SL and TP what the call supplies and clears the level (price and pips)
\* the call supplies nothing for, leaving entry price, side, lot size, status
\* and the account as they are; on an unknown or closed position it returns
\* an error and changes nothing.
C39_SetSLTPReplaces ==
    \A id \in RowIds(DB), lv \in RequestLevels :
       ~GivenTwice(lv) =>
          LET c == set_sltp_route(DB, id, lv)
          IN  IF Settable(id)
              THEN /\ c.ret.error = Ok
                   /\ OnlyLevelsOf(c.db, id)
                   /\ LevelAsGiven(positions[id], c.db.positions[id].sl_price,
                                   c.db.positions[id].sl_pips, lv.sl_price, lv.sl_pips)
                   /\ LevelAsGiven(positions[id], c.db.positions[id].tp_price,
                                   c.db.positions[id].tp_pips, lv.tp_price, lv.tp_pips)
              ELSE c.ret.error # Ok /\ c.db = DB

\* an open position has both levels set, and a call that supplies only the SL
\* price leaves it without a TP
C39_Witness ==
    \E id \in DOMAIN positions :
       /\ Settable(id)
       /\ positions[id].sl_price # None /\ positions[id].tp_price # None
       /\ LET c == set_sltp_route(DB, id, Levels(<<14970>>, None, None, None))
          IN  /\ c.ret.error = Ok
              /\ c.db.positions[id].sl_price = <<14970>>
              /\ c.db.positions[id].tp_price = None /\ c.db.positions[id].tp_pips = None

====
